---- MODULE Spec2Model ----
(***************************************************************************)
(* Model of the isolated-execution and retry-feedback pipeline of          *)
(* multi_agent_planner: the sandbox (core/sandbox.py), the developer agent *)
(* (agents/developer.py), the QA and critic agents, the task loop          *)
(* develop_with_retry (core/orchestrator.py) and the retry engine          *)
(* (core/retry.py).                                                        *)
(*                                                                         *)
(* The specifications share the variables: Spec (the task loop),           *)
(* ConfigSpec (the task loop with any name for the sandbox backend),       *)
(* SandboxSpec (calls of a sandbox backend, step by step), RetrySpec (one  *)
(* call through the retry engine), DelaySpec (calculate_delay),            *)
(* PipelineSpec (run_pipeline: the tasks of a plan one after another, then *)
(* the integration and the two concurrent generation steps), MemorySpec    *)
(* (core/memory.py: two Memory objects on one file), GroqSpec (the Groq    *)
(* client of core/llm_provider.py and its fallback models), LimiterSpec    *)
(* (the rate limiter of web/app.py under two request threads) and TwinSpec *)
(* (two run_pipeline calls of two web jobs at the same time).              *)
(*                                                                         *)
(* Source text is modelled as a sequence of lexical tokens, and Python's   *)
(* `pattern in code` as a search for a contiguous run of tokens.           *)
(***************************************************************************)
EXTENDS Integers, Sequences, FiniteSets, TLC

\* ------------------------------------------------------------------------
\* Bounds of the model
\* ------------------------------------------------------------------------

\* develop_with_retry is explored for max_retries in 0..MaxRetriesBound
MaxRetriesBound == 3

\* SandboxConfig.timeout is explored in 1..MaxTimeout (seconds)
MaxTimeout == 2

\* The retry engine is explored for max_retries in 0..RetryBound
RetryBound == 2

\* calculate_delay is explored for attempts 0 .. DelayAttempts - 1
DelayAttempts == 4

\* A backend is called up to MaxCalls times with the same text and config
MaxCalls == 2

\* run_pipeline is explored for plans of 0..MaxTasks tasks
MaxTasks == 2

\* The set, delete and clear calls made on the Memory instances of one file
MaxOps == 3

\* The requests made through one GroqClient
MaxRequests == 2

\* The is_allowed calls made on one RateLimiter, and the last reading of
\* its clock
MaxAllowedCalls == 4
MaxClock == 3

\* The tasks of the plan of each of two pipelines run at the same time
TwinTasks == 2

\* Python's None
None == "None"

\* ------------------------------------------------------------------------
\* Source text and substring search
\* ------------------------------------------------------------------------

\* Python `pattern in code` on token sequences
Contains(code, pattern) ==
    \E i \in 1..(Len(code) - Len(pattern) + 1) :
        SubSeq(code, i, i + Len(pattern) - 1) = pattern

\* A text of the catalogue with what the Python parser and interpreter do
\* with it:
\*   src       the source text, its lines written with ";" between them
\*   compiles  compile(src, "<string>", "exec") succeeds
\*   run       what running it does: "ok" (ends normally), "raise" (raises
\*             an Exception), "exit" (raises SystemExit, e.g. through
\*             unittest.main()), "hang" (never ends)
\*   stdout    what it has written to stdout when it ends, in an
\*             interpreter nothing has run in before
\*   marks     it sets an attribute on a module of the interpreter it runs in
\*   again     what it writes to stdout in an interpreter where that
\*             attribute is already set
Artifact(src, compiles, run, stdout) ==
    [src |-> src, compiles |-> compiles, run |-> run, stdout |-> stdout,
     marks |-> FALSE, again |-> stdout]

\* The artifacts the Generator is made to produce, and those passed to the
\* sandbox backends directly
Catalogue ==
    [ print    |-> Artifact(<<"print", "(", "1+1", ")">>, TRUE, "ok", "2\n"),
      ossystem |-> Artifact(<<"import", "os", ";", "os", ".", "system", "(", ")">>,
                            TRUE, "ok", ""),
      popen    |-> Artifact(<<"x", "=", "eval", "(", ")", ";", "subprocess", ".", "Popen", "(", ")">>,
                            TRUE, "ok", ""),
      raises   |-> Artifact(<<"raise", "ValueError">>, TRUE, "raise", ""),
      trunc    |-> Artifact(<<"def", "f", "(">>, FALSE, "raise", ""),
      unittest |-> Artifact(<<"import", "unittest", ";", "unittest", ".", "main", "(", ")">>,
                            TRUE, "exit", ""),
      input    |-> Artifact(<<"x", "=", "input", "(", ")">>, TRUE, "hang", ""),
      loop     |-> Artifact(<<"while", "True", ":", "pass">>, TRUE, "hang", ""),
      gui      |-> Artifact(<<"import", "tkinter", ";", "root", ".", "mainloop", "(", ")">>,
                            TRUE, "hang", ""),
      evalcall |-> Artifact(<<"x", "=", "eval", "(", "'1+1'", ")">>, TRUE, "ok", ""),
      socket   |-> Artifact(<<"import", "socket">>, TRUE, "ok", ""),
      func     |-> Artifact(<<"def", "f", "(", ")", ":", "return", "1">>, TRUE, "ok", ""),
      apierror |-> Artifact(<<"LLM", "API", "error", ":">>, FALSE, "raise", ""),
      long     |-> Artifact(<<"print", "(", "'x'*12", ")">>, TRUE, "ok", "xxxxxxxxxxxx\n"),
      caught   |-> Artifact(<<"try", ":", "import", "socket", ";", "except", "Exception", ":", "pass">>,
                            TRUE, "ok", ""),
      both     |-> Artifact(<<"Popen", "(", ")", ";", "os", ".", "system", "(", ")">>,
                            TRUE, "ok", ""),
      marks    |-> [src |-> <<"import", "math", ";",
                              "print", "(", "'b'", "if", "hasattr", "(", "math", ",", "'seen'", ")",
                              "else", "'a'", ")", ";",
                              "math", ".", "seen", "=", "1">>,
                    compiles |-> TRUE, run |-> "ok", stdout |-> "a\n",
                    marks |-> TRUE, again |-> "b\n"] ]

\* The text write_code returns when client.chat raises
ApiErrorText == "apierror"

\* The texts passed to the sandbox backends only
SandboxOnlyTexts == {"long", "caught", "both", "marks"}

\* What client.chat can answer to the Generator prompt
GeneratorTexts == DOMAIN Catalogue \ ({ApiErrorText} \cup SandboxOnlyTexts)

\* ------------------------------------------------------------------------
\* core/sandbox.py
\* ------------------------------------------------------------------------

\* ExecutionMethod: the names execute_code_safely accepts
ExecutionMethod == {"restricted", "docker", "subprocess"}

\* dangerous_patterns of execute_restricted, in the order of the list
dangerous_patterns ==
    << [pattern |-> <<"os", ".", "system">>, reason |-> "System command execution"],
       [pattern |-> <<"subprocess", ".">>,   reason |-> "Subprocess execution"],
       [pattern |-> <<"Popen">>,             reason |-> "Process spawning"],
       [pattern |-> <<"__subclasses__">>,    reason |-> "Class introspection attack"],
       [pattern |-> <<"__globals__">>,       reason |-> "Global namespace access"],
       [pattern |-> <<"__code__">>,          reason |-> "Code object manipulation"],
       [pattern |-> <<"__reduce__">>,        reason |-> "Pickle exploit"],
       [pattern |-> <<"execfile">>,          reason |-> "File execution"],
       [pattern |-> <<"reload">>,            reason |-> "Module reload"] >>

\* The markers that send execute_restricted to the subprocess backend
subprocess_markers ==
    { <<"input", "(">>, <<"eval", "(">>, <<"tkinter">>, <<"tk", ".">>, <<"mainloop">> }

\* The markers execute_subprocess skips execution for
mainloop_markers == { <<"mainloop", "(", ")">>, <<".", "mainloop", "(", ")">> }

\* The markers DeveloperAgent._execute_code skips execution for
gui_markers ==
    { <<"mainloop", "(", ")">>, <<"tk", ".", "mainloop">>, <<".", "mainloop", "(", ")">> }

\* SandboxConfig.allowed_imports, the default list
allowed_imports ==
    { "math", "random", "datetime", "json", "re", "collections", "itertools",
      "functools", "string", "csv", "io", "statistics", "uuid", "dataclasses",
      "typing", "enum", "pathlib", "abc", "copy", "operator", "contextlib",
      "heapq", "bisect", "array", "textwrap", "difflib", "unittest", "doctest" }

\* SandboxConfig, the fields the backends read besides timeout
SandboxConfig(max_output_size) ==
    [max_output_size |-> max_output_size, allowed_imports |-> allowed_imports]

\* SandboxConfig(): max_output_size defaults to 10000
DefaultConfig == SandboxConfig(10000)

\* Faulty variant of Truncate: the text is returned whole
Truncate_none(text, size) == text

\* `text[:size]`
Truncate(text, size) ==
    IF Len(text) <= size THEN text ELSE SubSeq(text, 1, size)

\* The output of execute_subprocess for a text it does not run
InteractiveSkipMessage ==
    "Interactive code detected (input()) - skipping execution. Code syntax is valid."
MainloopSkipMessage ==
    "GUI mainloop detected - skipping execution. Code syntax is valid."

\* The output of DeveloperAgent._execute_code for a GUI text
GuiSkipMessage == "GUI code - skipping execution (mainloop detected)"

\* The modules a text imports: the name after `import`, or after `from`
ImportedModules(src) ==
    { src[i + 1] : i \in { j \in 1..(Len(src) - 1) :
                              \/ src[j] = "from"
                              \/ src[j] = "import" /\ (j < 3 \/ src[j - 2] # "from") } }

\* Faulty variant of safe_import: every module is imported
safe_import_any(name, allowed) == TRUE

\* _safe_import returns the module (TRUE) or raises ImportError (FALSE)
safe_import(name, allowed) == name \in allowed

\* An import of the text is refused and raises ImportError
RefusedImport(src, config) ==
    \E name \in ImportedModules(src) : ~safe_import(name, config.allowed_imports)

\* The text catches the exception an import raises: the import is in a try
\* statement with `except Exception`, a name the restricted builtins define
\* (ImportError is none of them)
CatchesImportError(src) ==
    /\ Len(src) > 0
    /\ src[1] = "try"
    /\ Contains(src, <<"except", "Exception", ":">>)

\* An error text: its kind and, for a security violation, the rule matched
Error(kind, rule) == [kind |-> kind, rule |-> rule]
NoError == Error(None, None)

\* ExecutionResult
ExecutionResult(success, output, error, method_used) ==
    [success |-> success, output |-> output, error |-> error,
     method_used |-> method_used]

\* What one call did besides returning: the backends it entered (exec in the
\* host interpreter, a child process, a container) and how it ended: "return",
\* an exception that leaves the call, or "hang" (the call never returns)
Effects(inproc, child, container) ==
    [inproc |-> inproc, child |-> child, container |-> container]
NoEffects == Effects(0, 0, 0)
Outcome(result, fx, end) == [result |-> result, fx |-> fx, end |-> end]

\* The result field of a call that does not return
NoResult == ExecutionResult(FALSE, "", NoError, None)

\* Faulty variant of FirstDangerous: the last pattern that occurs is reported
FirstDangerous_last(src) ==
    LET hits == { i \in 1..Len(dangerous_patterns) :
                    Contains(src, dangerous_patterns[i].pattern) }
    IN IF hits = {} THEN 0
       ELSE CHOOSE i \in hits : \A j \in hits : i >= j

\* Index in dangerous_patterns of the first pattern that occurs in the text,
\* 0 when none does: the for loop of execute_restricted
FirstDangerous(src) ==
    LET hits == { i \in 1..Len(dangerous_patterns) :
                    Contains(src, dangerous_patterns[i].pattern) }
    IN IF hits = {} THEN 0
       ELSE CHOOSE i \in hits : \A j \in hits : i <= j

\* execute_subprocess
execute_subprocess(code, config) ==
    LET c == Catalogue[code]
        output == Truncate(c.stdout, config.max_output_size)
    IN
    IF Contains(c.src, <<"input", "(">>)
    THEN Outcome(ExecutionResult(TRUE, InteractiveSkipMessage, NoError, "subprocess_skip"),
                 NoEffects, "return")
    ELSE IF \E m \in mainloop_markers : Contains(c.src, m)
    THEN Outcome(ExecutionResult(TRUE, MainloopSkipMessage, NoError, "subprocess_skip"),
                 NoEffects, "return")
    ELSE CASE c.run = "ok" ->
                Outcome(ExecutionResult(TRUE, output, NoError, "subprocess"),
                        Effects(0, 1, 0), "return")
           [] c.run \in {"raise", "exit"} ->
                Outcome(ExecutionResult(FALSE, output, Error("stderr", None), "subprocess"),
                        Effects(0, 1, 0), "return")
           [] c.run = "hang" ->
                Outcome(ExecutionResult(FALSE, "", Error("timeout", None), "subprocess"),
                        Effects(0, 1, 0), "return")

\* The verdict of the dangerous-pattern check of execute_restricted for a
\* text in which dangerous_patterns[hit] occurs
SecurityViolation(hit) ==
    ExecutionResult(FALSE, "",
                    Error("Security violation", dangerous_patterns[hit].reason),
                    "restricted")

\* Faulty variant of NeedsSubprocess: the markers are not looked for
NeedsSubprocess_never(src) == FALSE

\* `needs_subprocess` of execute_restricted
NeedsSubprocess(src) == \E m \in subprocess_markers : Contains(src, m)

\* The host interpreter before any text has run in it
FreshHost == FALSE

\* What a text exec'd in the host interpreter has written to stdout; host:
\* an earlier text has set its attribute on a module of the interpreter
HostStdout(c, host) == IF host THEN c.again ELSE c.stdout

\* execute_restricted after the dangerous-pattern check: the fallback to
\* the subprocess backend for interactive or GUI code, else exec in the host
\* interpreter under `except Exception`; an import the text does not catch
\* the refusal of ends the exec
restricted_run(code, config, host) ==
    LET c == Catalogue[code]
        badimport == RefusedImport(c.src, config) /\ ~CatchesImportError(c.src)
        output == Truncate(HostStdout(c, host), config.max_output_size)
    IN
    IF NeedsSubprocess(c.src)
    THEN execute_subprocess(code, config)
    ELSE CASE badimport ->
                Outcome(ExecutionResult(FALSE, "", Error("ImportError", None), "restricted"),
                        Effects(1, 0, 0), "return")
           [] ~badimport /\ c.run = "ok" ->
                Outcome(ExecutionResult(TRUE, output, NoError, "restricted"),
                        Effects(1, 0, 0), "return")
           [] ~badimport /\ c.run = "raise" ->
                Outcome(ExecutionResult(FALSE, output, Error("Exception", None), "restricted"),
                        Effects(1, 0, 0), "return")
           [] ~badimport /\ c.run = "exit" ->
                \* SystemExit is no Exception: it leaves execute_restricted
                Outcome(NoResult, Effects(1, 0, 0), "SystemExit")
           [] ~badimport /\ c.run = "hang" ->
                \* exec has no timeout
                Outcome(NoResult, Effects(1, 0, 0), "hang")

\* Faulty variant of execute_restricted: the text is run before the patterns are
\* looked for
execute_restricted_checked_late(code, config) ==
    LET hit == FirstDangerous(Catalogue[code].src)
        ran == restricted_run(code, config, FreshHost)
    IN IF ran.end = "return" /\ hit # 0
       THEN Outcome(SecurityViolation(hit), ran.fx, "return")
       ELSE ran

\* execute_restricted
execute_restricted(code, config) ==
    LET hit == FirstDangerous(Catalogue[code].src) IN
    IF hit # 0
    THEN Outcome(SecurityViolation(hit), NoEffects, "return")
    ELSE restricted_run(code, config, FreshHost)

\* Faulty variant of DockerAvailable: the answer of `docker info` is not
\* looked at
DockerAvailable_assumed(up) == TRUE

\* The check of execute_docker that `docker info` succeeds; up: it does
DockerAvailable(up) == up

\* execute_docker; docker_up: `docker info` succeeds
execute_docker(code, config, docker_up) ==
    LET c == Catalogue[code]
        output == Truncate(c.stdout, config.max_output_size)
    IN
    IF ~DockerAvailable(docker_up)
    THEN Outcome(ExecutionResult(FALSE, "", Error("Docker is not available", None), "docker"),
                 NoEffects, "return")
    ELSE CASE c.run = "ok" ->
                Outcome(ExecutionResult(TRUE, output, NoError, "docker"),
                        Effects(0, 0, 1), "return")
           [] c.run \in {"raise", "exit"} ->
                Outcome(ExecutionResult(FALSE, output, Error("stderr", None), "docker"),
                        Effects(0, 0, 1), "return")
           [] c.run = "hang" ->
                Outcome(ExecutionResult(FALSE, "", Error("timeout", None), "docker"),
                        Effects(0, 0, 1), "return")

\* execute_code_safely: the backend is called with a SandboxConfig whose
\* max_output_size and allowed_imports are the defaults
execute_code_safely(code, method, docker_up) ==
    IF method \notin ExecutionMethod
    THEN Outcome(NoResult, NoEffects, "ValueError")
    ELSE CASE method = "restricted" -> execute_restricted(code, DefaultConfig)
           [] method = "docker"     -> execute_docker(code, DefaultConfig, docker_up)
           [] method = "subprocess" -> execute_subprocess(code, DefaultConfig)

\* ------------------------------------------------------------------------
\* agents/developer.py, agents/qa.py, agents/critic.py
\* ------------------------------------------------------------------------

\* The text of an execution: develop's `output` with "\nError: <error>"
\* appended when there is an error
Text(output, error) == [output |-> output, error |-> error]
NoText == Text(None, NoError)

\* Faulty variant of FailsSyntaxCheck: the text is not compiled first
FailsSyntaxCheck_skipped(c) == FALSE

\* The compile of _execute_code raises SyntaxError
FailsSyntaxCheck(c) == ~c.compiles

\* DeveloperAgent._execute_code: the exec_result dict, with the effects of
\* the call
ExecuteCode(code, method, docker_up) ==
    LET c == Catalogue[code] IN
    IF FailsSyntaxCheck(c)
    THEN Outcome(ExecutionResult(FALSE, "", Error("Syntax error", None), "syntax_check"),
                 NoEffects, "return")
    ELSE IF \E m \in gui_markers : Contains(c.src, m)
    THEN Outcome(ExecutionResult(TRUE, GuiSkipMessage, NoError, "gui_skip"),
                 NoEffects, "return")
    ELSE execute_code_safely(code, method, docker_up)

\* The dict DeveloperAgent.develop returns (no legacy critic), from the
\* exec_result of _execute_code
DevelopResult(task_code, exec_result) ==
    [code           |-> task_code,
     result         |-> Text(exec_result.output, exec_result.error),
     status         |-> IF exec_result.success THEN "passed" ELSE "failed",
     sandbox_method |-> exec_result.method_used]

\* No dict yet (Python None)
NoCode == [code |-> None, result |-> NoText, status |-> None, sandbox_method |-> None]

\* QAAgent.evaluate_code on a develop dict: the status is passed or failed,
\* so the sandbox result is trusted
evaluate_code(code_result) ==
    [status   |-> code_result.status,
     result   |-> code_result.result,
     critique |-> IF code_result.status = "failed" THEN code_result.result
                  ELSE NoText]

NoQA == [status |-> None, result |-> NoText, critique |-> NoText]

\* The critique CriticAgent.review returns when client.chat raises
ApiErrorCritique == "LLM API error"

\* What client.chat can answer to the Reviewer prompt
ReviewerTexts == {"c1"}

\* The exceptions client.chat can raise: one that the retry engine's
\* should_retry classifies as retryable, one that it does not
ChatErrors == {"rate limit", "invalid api key"}

\* ------------------------------------------------------------------------
\* core/shared_context.py
\* ------------------------------------------------------------------------

\* A summary is the set of its lines. SharedContext.get_context_summary with
\* nothing to show:
NoContext == { <<"No previous context. This is the first task.">> }

\* SharedContext after reset(): no class, no function, no import line. (The
\* architecture is set on the context object the architect holds since it
\* was constructed; reset_shared_context makes run_pipeline and
\* develop_with_retry use a new one, which never gets an architecture.)
EmptyContext ==
    [code_blocks |-> <<>>, defined_classes |-> <<>>, defined_functions |-> <<>>,
     imports |-> {}]

\* The names after the keyword in a text that parses: the ClassDef or
\* FunctionDef nodes of _extract_definitions
NamesAfter(src, keyword) ==
    { src[i + 1] : i \in { j \in 1..(Len(src) - 1) : src[j] = keyword } }

\* The lines of a text that begin with `import ` or `from `
ImportLines(src) ==
    { SubSeq(src, l[1], l[2]) :
        l \in { m \in (1..Len(src)) \X (1..Len(src)) :
                  /\ m[1] <= m[2]
                  /\ m[1] = 1 \/ src[m[1] - 1] = ";"
                  /\ m[2] = Len(src) \/ src[m[2] + 1] = ";"
                  /\ \A k \in m[1]..m[2] : src[k] # ";"
                  /\ src[m[1]] \in {"import", "from"} } }

\* SharedContext.add_generated_code: the text is the code block of the
\* task, its classes and functions map to it, replacing an earlier text of
\* the same name, and its import lines join the set
add_generated_code(context, task_id, text) ==
    LET src == Catalogue[text].src
        names(keyword) == IF Catalogue[text].compiles THEN NamesAfter(src, keyword)
                          ELSE {}
    IN [code_blocks       |-> (task_id :> text) @@ context.code_blocks,
        defined_classes   |-> [n \in names("class") |-> text] @@ context.defined_classes,
        defined_functions |-> [n \in names("def") |-> text] @@ context.defined_functions,
        imports           |-> context.imports \cup ImportLines(src)]

\* SharedContext.get_context_summary: the defined classes, the signatures
\* of the defined functions other than main, and the import lines; the
\* "No previous context" line when there is none of them
get_context_summary(context) ==
    LET parts == { <<"class", n>> : n \in DOMAIN context.defined_classes }
                 \cup { <<"def", n>> : n \in DOMAIN context.defined_functions \ {"main"} }
                 \cup context.imports
    IN IF parts = {} THEN NoContext ELSE parts

\* The summary of a context that holds one text with a function
SampleContext == get_context_summary(add_generated_code(EmptyContext, 1, "func"))

\* ------------------------------------------------------------------------
\* core/orchestrator.py: develop_with_retry
\* ------------------------------------------------------------------------

VARIABLES
    max_retries,      \* parameter of develop_with_retry
    sandbox_method,   \* developer.sandbox_method
    docker_up,        \* `docker info` succeeds on this host
    context_summary,  \* shared_context.get_context_summary() at entry
    pc,               \* where the call is
    attempt,          \* loop variable of develop_with_retry
    feedback,         \* <<>> for None, <<critique>> once a critique is folded in
    best_code,
    best_qa_result,
    critique,
    feedback_message, \* argument of the develop call in progress
    wc_attempt,       \* loop variable of write_code (0 outside write_code)
    chat_error,       \* the exception client.chat raised in that write_code
    task_code,        \* what write_code returned
    from_cache,       \* write_code returned a cached text
    code,             \* the dict developer.develop returned
    qa_result,        \* the dict qa_checker.evaluate_code returned
    devCache,         \* developer.memory: feedback message -> code
    criticCache,      \* critic.memory: reviewed dict -> critique
    ret,              \* the dict develop_with_retry returned
    exception,        \* the exception that left develop_with_retry
    hist,             \* one record per attempt evaluated so far
    developCalls,     \* calls of developer.develop
    reviewCalls       \* calls of critic.review

\* One call of a sandbox backend (core/sandbox.py)
VARIABLES
    sb_pc,            \* where the call is
    sb_entry,         \* the function called: a name of ExecutionMethod
    sb_fn,            \* the function now running (execute_<sb_fn>)
    sb_code,          \* the text passed
    sb_timeout,       \* config.timeout
    sb_config,        \* the rest of the SandboxConfig passed
    sb_host,          \* a text has set its attribute in the host interpreter
    sb_calls,         \* calls made so far with this text and config
    sb_earlier,       \* how each earlier one ended, and its ExecutionResult
    sb_checked,       \* the dangerous-pattern loop ended without a match
    sb_fx,            \* the backends entered so far
    sb_temp,          \* the temp file: "none", "exists", "deleted"
    sb_running,       \* what the call started and is still running
    sb_timed_out,     \* subprocess.run raised TimeoutExpired
    sb_elapsed,       \* seconds spent running the text
    sb_result,        \* the ExecutionResult returned
    sb_execution_time,\* its execution_time: <<>> for None, else <<seconds>>
    sb_end            \* how the call ended: None while it runs

\* One call through the retry engine (core/retry.py)
VARIABLES
    rt_fn,            \* the function called
    rt_max_retries,   \* its max_retries
    rt_has_on_retry,  \* an on_retry callback was passed
    rt_pc,            \* "loop", "returned", "raised"
    rt_attempt,       \* loop variable
    rt_log,           \* the outcome of each invocation of the operation
    rt_sleeps,        \* calls of time.sleep
    rt_delay,         \* the last delay slept, in tenths of a second
    rt_callbacks,     \* the (exception, attempt) pairs on_retry was called with
    rt_out            \* the value returned or the exception raised

\* Successive calls of calculate_delay with one config (core/retry.py)
VARIABLES
    cd_config,        \* the RetryConfig
    cd_n,             \* the next attempt number to be passed
    cd_delays         \* the delays returned for attempts 0 .. cd_n - 1

\* One call of run_pipeline (core/orchestrator.py), from the task loop on
VARIABLES
    pl_pc,            \* "tasks", "integrated", "parallel", "done", "raised"
    pl_tasks,         \* tasks: the status of each Task of the plan
    pl_k,             \* the tasks develop_with_retry was entered for so far
    pl_context,       \* the SharedContext run_pipeline made
    pl_session_log,   \* session_log["tasks"]
    pl_final_code,    \* final_code: <<>> before integrator.integrate returns
    pl_futures,       \* the state of each of the two futures
    pl_results,       \* what each future holds
    pl_collected,     \* the futures as_completed has yielded, in that order
    pl_test_code,     \* test_code
    pl_readme,        \* readme
    pl_files          \* the files written

taskVars == << max_retries, sandbox_method, docker_up, context_summary, pc, attempt, feedback,
           best_code, best_qa_result, critique, feedback_message, wc_attempt,
           chat_error, task_code, from_cache, code, qa_result, devCache, criticCache, ret, exception, hist,
           developCalls, reviewCalls >>

sandboxVars == << sb_pc, sb_entry, sb_fn, sb_code, sb_timeout, sb_config, sb_host,
                  sb_calls, sb_earlier, sb_checked, sb_fx,
                  sb_temp, sb_running, sb_timed_out, sb_elapsed, sb_result,
                  sb_execution_time, sb_end >>

retryVars == << rt_fn, rt_max_retries, rt_has_on_retry, rt_pc, rt_attempt, rt_log,
                rt_sleeps, rt_delay, rt_callbacks, rt_out >>

delayVars == << cd_config, cd_n, cd_delays >>

pipeVars == << pl_pc, pl_tasks, pl_k, pl_context, pl_session_log, pl_final_code,
               pl_futures, pl_results, pl_collected, pl_test_code, pl_readme,
               pl_files >>

\* core/memory.py: the Memory instances opened on one backing file
VARIABLES
    mm_file,          \* the backing file: absent, JSON text or cut-off text
    mm_data,          \* self.data of each instance
    mm_born,          \* calls made before each instance was constructed (-1: not yet)
    mm_last,          \* the value of the last set of each key, as it was passed
    mm_writers,       \* the instances that made a set, delete or clear call
    mm_plain,         \* every value passed to set so far was a string
    mm_n              \* the set, delete and clear calls made

memVars == << mm_file, mm_data, mm_born, mm_last, mm_writers, mm_plain, mm_n >>

\* core/llm_provider.py: one GroqClient
VARIABLES
    gq_primary,       \* self.primary_model
    gq_marked,        \* self._rate_limited_models
    gq_current,       \* self.current_model
    gq_pc,            \* where chat_with_messages is
    gq_attempt,       \* the loop variable of chat_with_messages
    gq_calls,         \* the API calls of this request: model, outcome, marks before
    gq_out,           \* what the request returned or raised
    gq_requests       \* the requests made

groqVars == << gq_primary, gq_marked, gq_current, gq_pc, gq_attempt, gq_calls,
               gq_out, gq_requests >>

\* web/app.py: one RateLimiter and the threads that call is_allowed
VARIABLES
    rl_clock,         \* time.time()
    rl_requests,      \* self.requests: the times recorded for each key
    rl_threads,       \* each thread: outside is_allowed, or with `now` read
    rl_admitted,      \* the calls admitted for each key: `now` and the clock then
    rl_denied,        \* the calls denied for each key
    rl_stale,         \* a call took the lock with a `now` older than a recorded time
    rl_calls          \* the is_allowed calls made

limVars == << rl_clock, rl_requests, rl_threads, rl_admitted, rl_denied, rl_stale,
              rl_calls >>

\* web/app.py, core/orchestrator.py, core/shared_context.py: two
\* run_pipeline calls in two job threads of one server
VARIABLES
    tw_pc,            \* where each run_pipeline call is
    tw_k,             \* the tasks each call has finished
    tw_objects,       \* the SharedContext objects made so far: what each holds
    tw_shared,        \* shared_context._shared_context: an object or none
    tw_orch,          \* orchestrator.shared_context: an object
    tw_file,          \* output/shared_context.json: whether it exists, what it holds
    tw_read,          \* the summary each call read last, and its own artifacts then
    tw_own,           \* the artifacts of the tasks of each call that passed
    tw_overlap        \* two calls have been under way at the same time

twinVars == << tw_pc, tw_k, tw_objects, tw_shared, tw_orch, tw_file, tw_read, tw_own,
               tw_overlap >>

\* The state of develop_with_retry, the sandbox, the retry engine and
\* run_pipeline
coreVars == << taskVars, sandboxVars, retryVars, delayVars, pipeVars >>

\* The state of the services beside them
serviceVars == << memVars, groqVars, limVars, twinVars >>

vars == << coreVars, serviceVars >>

\* What the actions of one part leave unchanged
notTaskVars == << sandboxVars, retryVars, delayVars, pipeVars, serviceVars >>
notSandboxVars == << taskVars, retryVars, delayVars, pipeVars, serviceVars >>
notRetryVars == << taskVars, sandboxVars, delayVars, pipeVars, serviceVars >>
notDelayVars == << taskVars, sandboxVars, retryVars, pipeVars, serviceVars >>
notPipeVars == << sandboxVars, retryVars, delayVars, serviceVars >>
notMemVars == << coreVars, groqVars, limVars, twinVars >>
notGroqVars == << coreVars, memVars, limVars, twinVars >>
notLimVars == << coreVars, memVars, groqVars, twinVars >>
notTwinVars == << coreVars, memVars, groqVars, limVars >>

loopVars == << feedback, best_code, best_qa_result, critique >>
ghostVars == << hist, developCalls, reviewCalls >>
paramVars == << max_retries, sandbox_method, docker_up, context_summary >>

NoReturn == [code |-> NoCode, qa_result |-> NoQA, critique |-> None,
             attempts |-> -1, passed |-> FALSE]

\* No sandbox call is being followed
SandboxIdle ==
    /\ sb_pc = "idle"
    /\ sb_entry = None
    /\ sb_fn = None
    /\ sb_code = None
    /\ sb_timeout = 0
    /\ sb_config = DefaultConfig
    /\ sb_host = FreshHost
    /\ sb_calls = 0
    /\ sb_earlier = <<>>
    /\ sb_checked = FALSE
    /\ sb_fx = NoEffects
    /\ sb_temp = "none"
    /\ sb_running = NoEffects
    /\ sb_timed_out = FALSE
    /\ sb_elapsed = 0
    /\ sb_result = NoResult
    /\ sb_execution_time = <<>>
    /\ sb_end = None

\* No call through the retry engine is being followed
RetryIdle ==
    /\ rt_fn = None
    /\ rt_max_retries = 0
    /\ rt_has_on_retry = FALSE
    /\ rt_pc = "idle"
    /\ rt_attempt = 0
    /\ rt_log = <<>>
    /\ rt_sleeps = 0
    /\ rt_delay = 0
    /\ rt_callbacks = <<>>
    /\ rt_out = <<>>

\* calculate_delay is not being followed
DelayIdle ==
    /\ cd_config = None
    /\ cd_n = 0
    /\ cd_delays = <<>>

\* The two steps run_pipeline submits to the thread pool
Workers == {"tests", "docs"}

\* run_pipeline is not being followed
PipeIdle ==
    /\ pl_pc = "idle"
    /\ pl_tasks = <<>>
    /\ pl_k = 0
    /\ pl_context = EmptyContext
    /\ pl_session_log = <<>>
    /\ pl_final_code = <<>>
    /\ pl_futures = [w \in Workers |-> "none"]
    /\ pl_results = [w \in Workers |-> None]
    /\ pl_collected = <<>>
    /\ pl_test_code = None
    /\ pl_readme = None
    /\ pl_files = {}

\* The two Memory instances of output/memory.json: the planner's and the
\* orchestrator's
Instances == {"planner", "orchestrator"}

\* The keys the instances use
Keys == {"plan", "last"}

\* A Python value: its type and what it holds
PyValue(type, items) == [type |-> type, items |-> items]

\* No value: the default of get, None
NoValue == PyValue("NoneType", <<>>)

\* A file: absent, or present with JSON text, or present with text that is
\* not JSON
File(state, data) == [state |-> state, data |-> data]

\* No Memory is in use
MemIdle ==
    /\ mm_file = File("absent", <<>>)
    /\ mm_data = [i \in Instances |-> <<>>]
    /\ mm_born = [i \in Instances |-> -1]
    /\ mm_last = [k \in Keys |-> NoValue]
    /\ mm_writers = {}
    /\ mm_plain = TRUE
    /\ mm_n = 0

\* LLMConfig.DEFAULT_MODELS["groq"]
DefaultGroqModel == "llama-3.3-70b-versatile"

\* No GroqClient request is made
GroqIdle ==
    /\ gq_primary = DefaultGroqModel
    /\ gq_marked = {}
    /\ gq_current = DefaultGroqModel
    /\ gq_pc = "idle"
    /\ gq_attempt = 0
    /\ gq_calls = <<>>
    /\ gq_out = None
    /\ gq_requests = 0

\* The client keys (IP addresses) and the request threads of the server
ClientKeys == {"10.0.0.1", "10.0.0.2"}
Threads == {"t1", "t2"}

\* A thread that is not inside is_allowed
Outside == [pc |-> "outside", key |-> None, now |-> 0]

\* No request has reached the RateLimiter
LimiterIdle ==
    /\ rl_clock = 0
    /\ rl_requests = [k \in ClientKeys |-> <<>>]
    /\ rl_threads = [t \in Threads |-> Outside]
    /\ rl_admitted = [k \in ClientKeys |-> <<>>]
    /\ rl_denied = [k \in ClientKeys |-> <<>>]
    /\ rl_stale = FALSE
    /\ rl_calls = 0

\* The module holds no SharedContext object: objects are numbered from 1
NoObject == 0

\* output/shared_context.json: there is none, or it holds these artifacts
NoFile == [exists |-> FALSE, holds |-> {}]
ContextFile(holds) == [exists |-> TRUE, holds |-> holds]

\* The two jobs of the server
Jobs == {"job1", "job2"}

\* No job has been started: the one SharedContext made at import holds
\* nothing
TwinIdle ==
    /\ tw_pc = [j \in Jobs |-> "start"]
    /\ tw_k = [j \in Jobs |-> 0]
    /\ tw_objects = <<{}>>
    /\ tw_shared = 1
    /\ tw_orch = 1
    /\ tw_file = NoFile
    /\ tw_read = [j \in Jobs |-> [summary |-> {}, own |-> {}]]
    /\ tw_own = [j \in Jobs |-> {}]
    /\ tw_overlap = FALSE

\* None of the services is in use
ServicesIdle == MemIdle /\ GroqIdle /\ LimiterIdle /\ TwinIdle

\* develop_with_retry is entered, the developer having been constructed
\* with one of the names `methods`
TaskLoopEntry(methods) ==
    /\ max_retries \in 0..MaxRetriesBound
    /\ sandbox_method \in methods
    /\ docker_up \in BOOLEAN
    /\ context_summary \in {NoContext, SampleContext}
    /\ pc = "loop"
    /\ attempt = 0
    /\ feedback = <<>>
    /\ best_code = NoCode
    /\ best_qa_result = NoQA
    /\ critique = ""
    /\ feedback_message = <<>>
    /\ wc_attempt = 0
    /\ chat_error = None
    /\ task_code = None
    /\ from_cache = FALSE
    /\ code = NoCode
    /\ qa_result = NoQA
    /\ devCache = <<>>
    /\ criticCache = <<>>
    /\ ret = NoReturn
    /\ exception = None
    /\ hist = <<>>
    /\ developCalls = 0
    /\ reviewCalls = 0

\* develop_with_retry is entered with a developer whose backend exists
TaskLoopInit == TaskLoopEntry(ExecutionMethod)

Init ==
    TaskLoopInit /\ SandboxIdle /\ RetryIdle /\ DelayIdle /\ PipeIdle /\ ServicesIdle

developVars == << feedback_message, wc_attempt, chat_error, task_code, from_cache >>

\* Faulty variant of LoopContinues: one pass too many
LoopContinues_one_more(i, n) == i <= n

\* `for attempt in range(max_retries)`: the loop body runs once more
LoopContinues(i, n) == i < n

\* Faulty variant of WantsReview: the critic is asked after the last attempt too
WantsReview_always(i, n) == i < n

\* `if attempt < max_retries - 1`: the critic is asked
WantsReview(i, n) == i < n - 1

\* Faulty variant of NextStep: a pass does not end the loop
NextStep_no_early_return(passed, i, n) ==
    IF WantsReview(i, n) THEN "review" ELSE "loop"

\* Where the loop goes once an attempt is evaluated: `if passed: return`,
\* else the critic when `attempt < max_retries - 1`, else the next pass
NextStep(passed, i, n) ==
    IF passed THEN "returned"
    ELSE IF WantsReview(i, n) THEN "review"
    ELSE "loop"

\* Faulty variant of TracksBest: a failing attempt is never kept
TracksBest_only_passed(best, passed) == passed

\* `if best_code is None or passed`: this attempt becomes the best one
TracksBest(best, passed) == best = NoCode \/ passed

\* The feedback_message develop_with_retry passes to developer.develop
\* (<<>> for none): the feedback, if any, followed by the context message
FeedbackMessage(fb, summary) ==
    IF fb # <<>> THEN fb \o <<summary>>
    ELSE IF summary # NoContext THEN <<summary>>
    ELSE <<>>

\* Memory.get on a cache: the stored text, None when the key is absent
CacheGet(cache, key) == IF key \in DOMAIN cache THEN cache[key] ELSE None

\* Memory.set on a cache
CacheSet(cache, key, value) == (key :> value) @@ cache

\* The record of one attempt: the text run, the dict develop returned, the
\* backends entered, how the call ended, and how the text was obtained
AttemptRecord(text, out, dict, error, cached) ==
    [art        |-> text,
     code       |-> dict,
     fx         |-> out.fx,
     end        |-> out.end,
     chat_error |-> error,
     from_cache |-> cached,
     reviewed   |-> FALSE,
     critique   |-> None]

\* The dict develop_with_retry returns
ReturnDict(c, qa, crit, n, passed) ==
    [code |-> c, qa_result |-> qa, critique |-> crit, attempts |-> n,
     passed |-> passed]

\* The rest of an attempt once write_code has returned `text`: develop runs
\* it (_execute_code) and returns its dict; the loop has it evaluated, tracks
\* the best attempt, returns on a pass and otherwise goes to the critic or to
\* the next pass of the loop
FinishAttempt(text, error, cached) ==
    LET out    == ExecuteCode(text, sandbox_method, docker_up)
        dict   == DevelopResult(text, out.result)
        qa     == evaluate_code(dict)
        passed == qa.status = "passed"
    IN
    /\ task_code' = text
    /\ chat_error' = error
    /\ from_cache' = cached
    /\ IF out.end # "return"
       THEN \* the exception leaves develop and develop_with_retry
            /\ pc' = IF out.end = "hang" THEN "hung" ELSE "raised"
            /\ exception' = out.end
            /\ hist' = Append(hist, AttemptRecord(text, out, NoCode, error, cached))
            /\ UNCHANGED << code, qa_result, best_code, best_qa_result, ret,
                            attempt >>
       ELSE /\ code' = dict
            /\ qa_result' = qa
            /\ hist' = Append(hist, AttemptRecord(text, out, dict, error, cached))
            /\ IF TracksBest(best_code, passed)
               THEN best_code' = dict /\ best_qa_result' = qa
               ELSE UNCHANGED << best_code, best_qa_result >>
            /\ pc' = NextStep(passed, attempt, max_retries)
            /\ ret' = IF pc' = "returned"
                      THEN ReturnDict(dict, qa, "", attempt + 1, TRUE)
                      ELSE ret
            /\ attempt' = IF pc' = "loop" THEN attempt + 1 ELSE attempt
            /\ UNCHANGED exception

\* The loop of develop_with_retry enters an attempt: it calls
\* developer.develop, whose write_code looks the prompt up in its memory; a
\* remembered text is returned and run at once
DevelopCall ==
    /\ pc = "loop"
    /\ LoopContinues(attempt, max_retries)
    /\ LET msg    == FeedbackMessage(feedback, context_summary)
           cached == CacheGet(devCache, msg)
       IN /\ feedback_message' = msg
          /\ wc_attempt' = 0
          /\ IF cached # None
             THEN FinishAttempt(cached, None, TRUE)
             ELSE /\ pc' = "write_code"
                  /\ task_code' = None
                  /\ chat_error' = None
                  /\ from_cache' = FALSE
                  /\ UNCHANGED << attempt, best_code, best_qa_result, code,
                                  qa_result, ret, exception, hist >>
    /\ developCalls' = developCalls + 1
    /\ UNCHANGED << paramVars, feedback, critique, devCache, criticCache,
                    reviewCalls >>
    /\ UNCHANGED notTaskVars

\* One pass of the loop of write_code: client.chat answers with a text, or
\* raises
GeneratorChat ==
    /\ pc = "write_code"
    /\ \E answer \in GeneratorTexts \cup ChatErrors :
          IF answer \in ChatErrors
          THEN \* except Exception as e: return f"LLM API error: {e}"
               /\ FinishAttempt(ApiErrorText, answer, FALSE)
               /\ wc_attempt' = 0
               /\ UNCHANGED devCache
          ELSE IF Catalogue[answer].compiles \/ ~(wc_attempt < 2)
          THEN \* complete code, or the last try: remember and return it
               /\ devCache' = CacheSet(devCache, feedback_message, answer)
               /\ FinishAttempt(answer, None, FALSE)
               /\ wc_attempt' = 0
          ELSE \* truncated code: ask again
               /\ wc_attempt' = wc_attempt + 1
               /\ UNCHANGED << pc, task_code, chat_error, from_cache, devCache,
                               attempt, best_code, best_qa_result, code,
                               qa_result, ret, exception, hist >>
    /\ UNCHANGED << paramVars, feedback, critique, feedback_message,
                    criticCache, developCalls, reviewCalls >>
    /\ UNCHANGED notTaskVars

\* critic.review: the remembered review of this dict and error, else what
\* client.chat answers, else the text of the exception it raised; the loop
\* folds it into the feedback and goes to the next attempt
ReviewCall ==
    /\ pc = "review"
    /\ \E answer \in ReviewerTexts \cup ChatErrors :
          LET cached == CacheGet(criticCache, code)
              text   == IF cached # None THEN cached
                        ELSE IF answer \in ChatErrors THEN ApiErrorCritique
                        ELSE answer
          IN /\ critique' = text
             /\ feedback' = <<text>>
             /\ criticCache' = IF cached = None /\ answer \notin ChatErrors
                               THEN CacheSet(criticCache, code, answer)
                               ELSE criticCache
             /\ hist' = [hist EXCEPT ![Len(hist)].reviewed = TRUE,
                                     ![Len(hist)].critique = text]
    /\ reviewCalls' = reviewCalls + 1
    /\ attempt' = attempt + 1
    /\ pc' = "loop"
    /\ UNCHANGED << paramVars, best_code, best_qa_result, developVars, code,
                    qa_result, devCache, ret, exception, developCalls >>
    /\ UNCHANGED notTaskVars

\* The loop is over without a pass: the best attempt is returned
Exhausted ==
    /\ pc = "loop"
    /\ ~LoopContinues(attempt, max_retries)
    /\ ret' = ReturnDict(best_code, best_qa_result, critique, max_retries, FALSE)
    /\ pc' = "returned"
    /\ UNCHANGED << paramVars, attempt, loopVars, developVars, code, qa_result,
                    devCache, criticCache, exception, ghostVars >>
    /\ UNCHANGED notTaskVars

Next ==
    \/ DevelopCall
    \/ GeneratorChat
    \/ ReviewCall
    \/ Exhausted

Spec == Init /\ [][Next]_vars

\* DeveloperAgent.__init__ stores the name it is given, whatever it is:
\* the names a developer can hold are the three backends and any other
\* string
MethodNames == ExecutionMethod \cup {"bogus"}

\* develop_with_retry is entered with a developer constructed with any name
ConfigInit ==
    /\ TaskLoopEntry(MethodNames)
    /\ SandboxIdle /\ RetryIdle /\ DelayIdle /\ PipeIdle /\ ServicesIdle

ConfigSpec == ConfigInit /\ [][Next]_vars

\* ------------------------------------------------------------------------
\* core/orchestrator.py: run_pipeline, from the task loop on
\* ------------------------------------------------------------------------

\* MAX_RETRIES
MAX_RETRIES == 3

\* The locals of develop_with_retry and what the ghost variables say of the
\* call, as the call is entered (at = "loop") or once its frame is gone
\* (at = "idle"). The plan's task descriptions are distinct and begin every
\* key of the two memories, so no entry of an earlier task is read again:
\* they are left out.
TaskLoopFrame(at, summary) ==
    /\ pc' = at
    /\ context_summary' = summary
    /\ attempt' = 0
    /\ feedback' = <<>>
    /\ best_code' = NoCode
    /\ best_qa_result' = NoQA
    /\ critique' = ""
    /\ feedback_message' = <<>>
    /\ wc_attempt' = 0
    /\ chat_error' = None
    /\ task_code' = None
    /\ from_cache' = FALSE
    /\ code' = NoCode
    /\ qa_result' = NoQA
    /\ devCache' = <<>>
    /\ criticCache' = <<>>
    /\ ret' = NoReturn
    /\ exception' = None
    /\ hist' = <<>>
    /\ developCalls' = 0
    /\ reviewCalls' = 0
    /\ UNCHANGED << max_retries, sandbox_method, docker_up >>

\* run_pipeline has reset the shared context, has its plan and its
\* architecture and is at `for task in tasks`; the developer agent is the
\* module's DeveloperAgent(), whose sandbox_method is "restricted"
PipelineInit ==
    /\ pl_pc = "tasks"
    /\ pl_tasks \in { [i \in 1..n |-> "pending"] : n \in 0..MaxTasks }
    /\ pl_k = 0
    /\ pl_context = EmptyContext
    /\ pl_session_log = <<>>
    /\ pl_final_code = <<>>
    /\ pl_futures = [w \in Workers |-> "none"]
    /\ pl_results = [w \in Workers |-> None]
    /\ pl_collected = <<>>
    /\ pl_test_code = None
    /\ pl_readme = None
    /\ pl_files = {}
    /\ max_retries = MAX_RETRIES
    /\ sandbox_method = "restricted"
    /\ docker_up = FALSE
    /\ context_summary = NoContext
    /\ pc = "idle"
    /\ attempt = 0
    /\ feedback = <<>>
    /\ best_code = NoCode
    /\ best_qa_result = NoQA
    /\ critique = ""
    /\ feedback_message = <<>>
    /\ wc_attempt = 0
    /\ chat_error = None
    /\ task_code = None
    /\ from_cache = FALSE
    /\ code = NoCode
    /\ qa_result = NoQA
    /\ devCache = <<>>
    /\ criticCache = <<>>
    /\ ret = NoReturn
    /\ exception = None
    /\ hist = <<>>
    /\ developCalls = 0
    /\ reviewCalls = 0
    /\ SandboxIdle
    /\ RetryIdle
    /\ DelayIdle
    /\ ServicesIdle

\* The loop over the tasks takes the next task and calls
\* develop_with_retry(task, MAX_RETRIES), which reads the context summary
\* on entry
StartTask ==
    /\ pl_pc = "tasks"
    /\ pc = "idle"
    /\ pl_k < Len(pl_tasks)
    /\ pl_k' = pl_k + 1
    /\ TaskLoopFrame("loop", get_context_summary(pl_context))
    /\ UNCHANGED << pl_pc, pl_tasks, pl_context, pl_session_log, pl_final_code,
                    pl_futures, pl_results, pl_collected, pl_test_code,
                    pl_readme, pl_files >>
    /\ UNCHANGED notPipeVars

\* task.status once develop_with_retry has returned: `if result["passed"]`
\* "complete", else "failed"
TaskStatus(result) == IF result.passed THEN "complete" ELSE "failed"

\* Faulty variant of StoresArtifact: no artifact is stored
StoresArtifact_never(passed) == FALSE

\* Faulty variant of StoresArtifact: the text of a failed task is stored too
StoresArtifact_always(passed) == TRUE

\* `if result["passed"]`: the artifact goes to the shared context
StoresArtifact(passed) == passed

\* develop_with_retry has returned: the task is complete or failed, the
\* code of a passed task is added to the shared context, and the entry of
\* the task is appended to the session log (of its code the entry here
\* keeps only that there is one)
TaskReturned ==
    /\ pl_pc = "tasks"
    /\ pc = "returned"
    /\ pl_context' = IF StoresArtifact(ret.passed)
                      THEN add_generated_code(pl_context, pl_k, ret.code.code)
                      ELSE pl_context
    /\ pl_tasks' = [pl_tasks EXCEPT ![pl_k] = TaskStatus(ret)]
    /\ pl_session_log' = Append(pl_session_log,
                                [task     |-> pl_k,
                                 has_code |-> ret.code.code # None,
                                 status   |-> ret.code.status])
    /\ TaskLoopFrame("idle", NoContext)
    /\ UNCHANGED << pl_pc, pl_k, pl_final_code, pl_futures, pl_results,
                    pl_collected, pl_test_code, pl_readme, pl_files >>
    /\ UNCHANGED notPipeVars

\* IntegratorAgent.integrate: "# No code generated" when no entry of the
\* log has code, else the one block, or the blocks merged
integrate(session_log) ==
    LET blocks == SelectSeq(session_log, LAMBDA entry : entry.has_code)
    IN IF blocks = <<>> THEN <<"# No code generated">>
       ELSE <<"merged">> \o [i \in 1..Len(blocks) |-> blocks[i].task]

\* The loop over the tasks is over: the session log is saved, the
\* integrator assembles the final code and it is written
Integrate ==
    /\ pl_pc = "tasks"
    /\ pc = "idle"
    /\ pl_k = Len(pl_tasks)
    /\ pl_final_code' = integrate(pl_session_log)
    /\ pl_files' = pl_files \cup {"session_log.json", "final_program.py"}
    /\ pl_pc' = "integrated"
    /\ UNCHANGED << pl_tasks, pl_k, pl_context, pl_session_log, pl_futures,
                    pl_results, pl_collected, pl_test_code, pl_readme >>
    /\ UNCHANGED taskVars
    /\ UNCHANGED notPipeVars

\* generate_tests_task and generate_docs_task are submitted to the pool
SubmitWorkers ==
    /\ pl_pc = "integrated"
    /\ pl_futures' = [w \in Workers |-> "running"]
    /\ pl_pc' = "parallel"
    /\ UNCHANGED << pl_tasks, pl_k, pl_context, pl_session_log, pl_final_code,
                    pl_results, pl_collected, pl_test_code, pl_readme, pl_files >>
    /\ UNCHANGED taskVars
    /\ UNCHANGED notPipeVars

\* What client.chat can answer to the test and to the README prompt
WorkerTexts == [tests |-> "import pytest", docs |-> "# Title"]

\* TestGeneratorAgent.generate_tests and DocumenterAgent.generate_readme:
\* the answer of client.chat, or a text that names the exception it raised
Generate(w, answer) ==
    IF answer \in ChatErrors
    THEN IF w = "tests"
         THEN "# Test generation failed: " \o answer
         ELSE "# Project\n\nREADME generation failed: " \o answer
    ELSE answer

\* One of the two pool threads runs its step to the end
WorkerRun ==
    /\ pl_pc = "parallel"
    /\ \E w \in Workers :
          /\ pl_futures[w] = "running"
          /\ \E answer \in {WorkerTexts[w]} \cup ChatErrors :
                pl_results' = [pl_results EXCEPT ![w] = Generate(w, answer)]
          /\ pl_futures' = [pl_futures EXCEPT ![w] = "returned"]
    /\ UNCHANGED << pl_pc, pl_tasks, pl_k, pl_context, pl_session_log, pl_final_code,
                    pl_collected, pl_test_code, pl_readme, pl_files >>
    /\ UNCHANGED taskVars
    /\ UNCHANGED notPipeVars

\* Faulty variant of CollectTarget: every result goes to test_code
CollectTarget_tests(task_name) == "tests"

\* `if task_name == "tests"`: the variable the result of a future goes to
CollectTarget(task_name) == task_name

\* The main thread's loop over as_completed(futures) gets a future that is
\* done: its result goes to test_code or to readme; were it an exception
\* the fallback text would
Collect ==
    /\ pl_pc = "parallel"
    /\ \E w \in Workers :
          /\ pl_futures[w] \in {"returned", "raised"}
          /\ \A i \in 1..Len(pl_collected) : pl_collected[i] # w
          /\ pl_collected' = Append(pl_collected, w)
          /\ LET value == IF pl_futures[w] = "returned" THEN pl_results[w]
                           ELSE IF w = "tests" THEN "# Test generation failed"
                           ELSE "# Documentation generation failed"
             IN IF CollectTarget(w) = "tests"
                THEN pl_test_code' = value /\ UNCHANGED pl_readme
                ELSE pl_readme' = value /\ UNCHANGED pl_test_code
    /\ UNCHANGED << pl_pc, pl_tasks, pl_k, pl_context, pl_session_log, pl_final_code,
                    pl_futures, pl_results, pl_files >>
    /\ UNCHANGED taskVars
    /\ UNCHANGED notPipeVars

\* Both futures are collected and the pool is shut down: test_code and
\* readme are written, in this order; f.write(None) raises TypeError
WriteOutputs ==
    /\ pl_pc = "parallel"
    /\ Len(pl_collected) = Cardinality(Workers)
    /\ IF pl_test_code = None
       THEN /\ pl_pc' = "raised"
            /\ UNCHANGED pl_files
       ELSE IF pl_readme = None
       THEN /\ pl_pc' = "raised"
            /\ pl_files' = pl_files \cup {"test_program.py"}
       ELSE /\ pl_pc' = "done"
            /\ pl_files' = pl_files \cup {"test_program.py", "README.md"}
    /\ UNCHANGED << pl_tasks, pl_k, pl_context, pl_session_log, pl_final_code,
                    pl_futures, pl_results, pl_collected, pl_test_code, pl_readme >>
    /\ UNCHANGED taskVars
    /\ UNCHANGED notPipeVars

PipelineNext ==
    \/ StartTask
    \/ DevelopCall
    \/ GeneratorChat
    \/ ReviewCall
    \/ Exhausted
    \/ TaskReturned
    \/ Integrate
    \/ SubmitWorkers
    \/ WorkerRun
    \/ Collect
    \/ WriteOutputs

PipelineSpec == PipelineInit /\ [][PipelineNext]_vars

\* ------------------------------------------------------------------------
\* core/sandbox.py: one call of execute_restricted, execute_subprocess or
\* execute_docker, step by step
\* ------------------------------------------------------------------------

\* The call returns an ExecutionResult with this execution_time
SbReturn(result, time) ==
    /\ sb_result' = result
    /\ sb_execution_time' = time
    /\ sb_end' = "return"
    /\ sb_pc' = "done"

\* An exception leaves the call
SbRaise(exc) ==
    /\ sb_result' = NoResult
    /\ sb_execution_time' = <<>>
    /\ sb_end' = exc
    /\ sb_pc' = "done"

sbOutcome == << sb_result, sb_execution_time, sb_end >>

\* The task loop is not run: develop_with_retry(task, 0) not yet entered
TaskLoopAtRest ==
    /\ TaskLoopInit
    /\ max_retries = 0
    /\ sandbox_method = "restricted"
    /\ context_summary = NoContext

SandboxInit ==
    /\ TaskLoopAtRest
    /\ SandboxIdle
    /\ RetryIdle
    /\ DelayIdle
    /\ PipeIdle
    /\ ServicesIdle

\* The configs the backends are called with: a max_output_size shorter than
\* some outputs, and the default
SandboxConfigs == { SandboxConfig(10), DefaultConfig }

\* What stays as it is while one call runs
sbBetweenCalls == << sb_entry, sb_code, sb_timeout, sb_config, sb_calls, sb_earlier >>

\* A backend is called with a text and a config
SandboxCall ==
    /\ sb_pc = "idle"
    /\ \E text \in DOMAIN Catalogue, fn \in ExecutionMethod, t \in 1..MaxTimeout,
          config \in SandboxConfigs :
          /\ sb_code' = text
          /\ sb_entry' = fn
          /\ sb_fn' = fn
          /\ sb_timeout' = t
          /\ sb_config' = config
    /\ sb_calls' = 1
    /\ sb_pc' = "entered"
    /\ UNCHANGED << sb_host, sb_earlier, sb_checked, sb_fx, sb_temp, sb_running,
                    sb_timed_out, sb_elapsed, sbOutcome >>
    /\ UNCHANGED notSandboxVars

\* The call is over and the same backend is called again in the same
\* process with the same text and config
SandboxRepeat ==
    /\ sb_pc = "done"
    /\ sb_calls < MaxCalls
    /\ sb_earlier' = Append(sb_earlier, [result |-> sb_result, end |-> sb_end])
    /\ sb_calls' = sb_calls + 1
    /\ sb_fn' = sb_entry
    /\ sb_pc' = "entered"
    /\ sb_checked' = FALSE
    /\ sb_fx' = NoEffects
    /\ sb_temp' = "none"
    /\ sb_running' = NoEffects
    /\ sb_timed_out' = FALSE
    /\ sb_elapsed' = 0
    /\ sb_result' = NoResult
    /\ sb_execution_time' = <<>>
    /\ sb_end' = None
    /\ UNCHANGED << sb_entry, sb_code, sb_timeout, sb_config, sb_host >>
    /\ UNCHANGED notSandboxVars

\* execute_restricted: the loop over dangerous_patterns
RestrictedCheck ==
    /\ sb_pc = "entered"
    /\ sb_fn = "restricted"
    /\ LET hit == FirstDangerous(Catalogue[sb_code].src) IN
       IF hit # 0
       THEN /\ SbReturn(SecurityViolation(hit), <<>>)
            /\ UNCHANGED sb_checked
       ELSE /\ sb_checked' = TRUE
            /\ sb_pc' = "checked"
            /\ UNCHANGED sbOutcome
    /\ UNCHANGED << sbBetweenCalls, sb_host, sb_fn, sb_fx, sb_temp,
                    sb_running, sb_timed_out, sb_elapsed >>
    /\ UNCHANGED notSandboxVars

\* execute_restricted after the loop: interactive or GUI text is handed to
\* execute_subprocess; any other text is exec'd in the host interpreter,
\* with no timeout, under `except Exception`
RestrictedExec ==
    /\ sb_pc = "checked"
    /\ IF NeedsSubprocess(Catalogue[sb_code].src)
       THEN /\ sb_fn' = "subprocess"
            /\ sb_pc' = "entered"
            /\ UNCHANGED << sb_fx, sb_elapsed, sb_host, sbOutcome >>
       ELSE LET out == restricted_run(sb_code, sb_config, sb_host) IN
            /\ sb_fx' = out.fx
            /\ sb_host' = (sb_host \/ (Catalogue[sb_code].marks /\ out.end = "return"
                                         /\ out.result.success))
            /\ UNCHANGED sb_fn
            /\ CASE out.end = "return" ->
                      \E t \in 0..MaxTimeout :
                          /\ sb_elapsed' = t
                          /\ SbReturn(out.result, <<t>>)
                 [] out.end = "hang" ->
                      /\ sb_pc' = "hung"
                      /\ UNCHANGED << sb_elapsed, sbOutcome >>
                 [] OTHER ->
                      /\ SbRaise(out.end)
                      /\ UNCHANGED sb_elapsed
    /\ UNCHANGED << sbBetweenCalls, sb_checked, sb_temp,
                    sb_running, sb_timed_out >>
    /\ UNCHANGED notSandboxVars

\* execute_subprocess: text with input( or a mainloop call is not run
SubprocessSkip ==
    /\ sb_pc = "entered"
    /\ sb_fn = "subprocess"
    /\ LET src == Catalogue[sb_code].src IN
       IF Contains(src, <<"input", "(">>)
          \/ \E m \in mainloop_markers : Contains(src, m)
       THEN SbReturn(execute_subprocess(sb_code, sb_config).result, <<0>>)
       ELSE /\ sb_pc' = "tempfile"
            /\ UNCHANGED sbOutcome
    /\ UNCHANGED << sbBetweenCalls, sb_host, sb_fn, sb_checked, sb_fx,
                    sb_temp, sb_running, sb_timed_out, sb_elapsed >>
    /\ UNCHANGED notSandboxVars

\* execute_docker: `docker info`
DockerInfo ==
    /\ sb_pc = "entered"
    /\ sb_fn = "docker"
    /\ IF ~DockerAvailable(docker_up)
       THEN SbReturn(execute_docker(sb_code, sb_config, docker_up).result, <<>>)
       ELSE /\ sb_pc' = "tempfile"
            /\ UNCHANGED sbOutcome
    /\ UNCHANGED << sbBetweenCalls, sb_host, sb_fn, sb_checked, sb_fx,
                    sb_temp, sb_running, sb_timed_out, sb_elapsed >>
    /\ UNCHANGED notSandboxVars

\* execute_subprocess and execute_docker: the temp file is created
\* (delete=False) and the text written to it, before the try statement; a
\* write that raises (an unencodable text, a full disk) leaves the call
TempFile ==
    /\ sb_pc = "tempfile"
    /\ sb_temp' = "exists"
    /\ \E write_ok \in BOOLEAN :
          IF write_ok
          THEN /\ sb_pc' = "run"
               /\ UNCHANGED sbOutcome
          ELSE SbRaise("write error")
    /\ UNCHANGED << sbBetweenCalls, sb_host, sb_fn, sb_checked, sb_fx,
                    sb_running, sb_timed_out, sb_elapsed >>
    /\ UNCHANGED notSandboxVars

\* execute_subprocess and execute_docker: the try statement. subprocess.run
\* starts the python child or the docker client (or raises OSError), waits
\* up to config.timeout and on a timeout kills the process it started: the
\* child, or the client, whose container the daemon keeps running. The
\* finally clause unlinks the temp file.
Run ==
    /\ sb_pc = "run"
    /\ \E launch_ok \in BOOLEAN, t \in 0..(sb_timeout - 1) :
          IF ~launch_ok
          THEN /\ SbRaise("OSError")
               /\ UNCHANGED << sb_fx, sb_running, sb_timed_out, sb_elapsed >>
          ELSE LET out   == IF sb_fn = "docker"
                            THEN execute_docker(sb_code, sb_config, TRUE)
                            ELSE execute_subprocess(sb_code, sb_config)
                   timed == Catalogue[sb_code].run = "hang"
               IN /\ sb_fx' = out.fx
                  /\ sb_timed_out' = timed
                  /\ sb_elapsed' = IF timed THEN sb_timeout ELSE t
                  /\ sb_running' = IF timed /\ sb_fn = "docker"
                                   THEN Effects(0, 0, 1)
                                   ELSE NoEffects
                  /\ SbReturn(out.result, IF timed THEN <<>> ELSE <<t>>)
    /\ sb_temp' = "deleted"
    /\ UNCHANGED << sbBetweenCalls, sb_host, sb_fn, sb_checked >>
    /\ UNCHANGED notSandboxVars

SandboxNext ==
    \/ SandboxCall
    \/ SandboxRepeat
    \/ RestrictedCheck
    \/ RestrictedExec
    \/ SubprocessSkip
    \/ DockerInfo
    \/ TempFile
    \/ Run

SandboxSpec == SandboxInit /\ [][SandboxNext]_vars

\* ------------------------------------------------------------------------
\* core/retry.py
\* ------------------------------------------------------------------------

\* An exception: its class and the words of str(exception)
Exc(type, msg) == [type |-> type, msg |-> msg]

\* The value the operation returns when it succeeds
Value == Exc(None, <<"value">>)

\* The classes of the exceptions below with their base classes
\* (isinstance(e, T) iff T \in Bases[e.type])
Bases ==
    [ ConnectionError |-> {"ConnectionError", "OSError", "Exception"},
      ValueError      |-> {"ValueError", "Exception"},
      RuntimeError    |-> {"RuntimeError", "Exception"} ]

\* str.lower on the words used in the messages below
Lower(word) ==
    CASE word = "Rate"  -> "rate"
      [] word = "Limit" -> "limit"
      [] OTHER          -> word

\* str(exception).lower()
LowerMsg(msg) == [i \in 1..Len(msg) |-> Lower(msg[i])]

\* RetryConfig: the defaults of the dataclass (delays in tenths of a second,
\* jitter_factor as a divisor: 0.1 = 1/10)
RetryConfig(n, max_delay) ==
    [ max_retries          |-> n,
      base_delay           |-> 10,
      max_delay            |-> max_delay,
      exponential_base     |-> 2,
      jitter               |-> TRUE,
      jitter_divisor       |-> 10,
      retryable_exceptions |-> {"ConnectionError", "TimeoutError", "OSError"},
      retryable_messages   |->
          { <<"rate", "limit">>, <<"too", "many", "requests">>,
            <<"service", "unavailable">>, <<"timeout">>,
            <<"connection", "reset">>, <<"internal", "server", "error">>,
            <<"502">>, <<"503">>, <<"504">>, <<"529">> } ]

\* The RetryConfig retry_llm_call builds: its own retryable_messages
LlmRetryConfig(n) ==
    [ RetryConfig(n, 300) EXCEPT !.retryable_messages =
          { <<"rate", "limit">>, <<"rate_limit">>, <<"ratelimit">>,
            <<"too", "many", "requests">>, <<"429">>,
            <<"service", "unavailable">>, <<"503">>,
            <<"timeout">>, <<"timed", "out">>,
            <<"connection">>, <<"network">>,
            <<"internal", "server", "error">>, <<"500">>,
            <<"bad", "gateway">>, <<"502">>,
            <<"gateway", "timeout">>, <<"504">>,
            <<"overloaded">>, <<"capacity">> } ]

\* The functions of the retry engine
RetryFunctions == {"retry_with_backoff", "RetryContext.execute", "retry_llm_call"}

\* The config each function runs with
RetryConfigOf(fn, n) ==
    IF fn = "retry_llm_call" THEN LlmRetryConfig(n)
    ELSE RetryConfig(n, 600)

\* should_retry
should_retry(e, config) ==
    \/ \E exc_type \in config.retryable_exceptions : exc_type \in Bases[e.type]
    \/ \E pattern \in config.retryable_messages :
          Contains(LowerMsg(e.msg), pattern)

\* base ** n
RECURSIVE Power(_, _)
Power(base, n) == IF n = 0 THEN 1 ELSE base * Power(base, n - 1)

\* Faulty variant of Min: the cap is left out
Min_uncapped(a, b) == a

Min(a, b) == IF a <= b THEN a ELSE b
Max(a, b) == IF a >= b THEN a ELSE b

\* What random.uniform(-1, 1) is drawn from: both ends and the middle
JitterDraws == {-1, 0, 1}

\* calculate_delay for attempt k; u: the draw of random.uniform scaled to -1..1
calculate_delay(k, config, u) ==
    LET delay == Min(config.base_delay * Power(config.exponential_base, k),
                     config.max_delay)
        jitter_range == delay \div config.jitter_divisor
    IN Max(0, IF config.jitter THEN delay + u * jitter_range ELSE delay)

\* What one invocation of the operation can do: return, or raise
\*   a ConnectionError (retryable by its class),
\*   an error whose message, once lowered, has "rate limit",
\*   an error that no config retries,
\*   "529" (in the default retryable_messages only),
\*   "overloaded" (in those of retry_llm_call only)
OperationOutcomes ==
    { Value,
      Exc("ConnectionError", <<"refused">>),
      Exc("ValueError", <<"Rate", "Limit", "exceeded">>),
      Exc("ValueError", <<"invalid", "api", "key">>),
      Exc("RuntimeError", <<"529">>),
      Exc("RuntimeError", <<"overloaded">>) }

\* Faulty variant of PropagatesNow: the last retry is never made
PropagatesNow_one_early(k, n, retryable) == k + 1 >= n \/ ~retryable

\* Faulty variant of PropagatesNow: should_retry is not consulted
PropagatesNow_only_exhausted(k, n, retryable) == k >= n

\* `if attempt >= max_retries: raise` and `if not should_retry(e, config):
\* raise`: the exception caught is raised again
PropagatesNow(k, n, retryable) == k >= n \/ ~retryable

\* Faulty variant of Reraised: the first exception seen is raised
Reraised_first(log) == log[1]

\* The bare `raise` in the except clause: the exception just caught, which
\* is the one of the last invocation logged
Reraised(log) == log[Len(log)]

RetryInit ==
    /\ TaskLoopAtRest
    /\ docker_up = FALSE
    /\ SandboxIdle
    /\ rt_fn \in RetryFunctions
    /\ rt_max_retries \in 0..RetryBound
    /\ rt_has_on_retry \in (IF rt_fn = "RetryContext.execute" THEN {FALSE} ELSE BOOLEAN)
    /\ rt_pc = "loop"
    /\ rt_attempt = 0
    /\ rt_log = <<>>
    /\ rt_sleeps = 0
    /\ rt_delay = 0
    /\ rt_callbacks = <<>>
    /\ rt_out = <<>>
    /\ DelayIdle
    /\ PipeIdle
    /\ ServicesIdle

\* One pass of `for attempt in range(max_retries + 1)`: the operation is
\* invoked; its value is returned, or its exception is raised again, or
\* on_retry is called (when given), the delay is slept and the loop goes on
RetryIteration(config) ==
    /\ rt_pc = "loop"
    /\ rt_attempt < config.max_retries + 1
    /\ \E outcome \in OperationOutcomes, u \in JitterDraws :
          /\ rt_log' = Append(rt_log, outcome)
          /\ IF outcome = Value
             THEN /\ rt_pc' = "returned"
                  /\ rt_out' = <<outcome>>
                  /\ UNCHANGED << rt_attempt, rt_sleeps, rt_delay, rt_callbacks >>
             ELSE IF PropagatesNow(rt_attempt, config.max_retries,
                                   should_retry(outcome, config))
             THEN /\ rt_pc' = "raised"
                  /\ rt_out' = <<Reraised(Append(rt_log, outcome))>>
                  /\ UNCHANGED << rt_attempt, rt_sleeps, rt_delay, rt_callbacks >>
             ELSE /\ rt_callbacks' = IF rt_has_on_retry
                                     THEN Append(rt_callbacks, <<outcome, rt_attempt + 1>>)
                                     ELSE rt_callbacks
                  /\ rt_delay' = calculate_delay(rt_attempt, config, u)
                  /\ rt_sleeps' = rt_sleeps + 1
                  /\ rt_attempt' = rt_attempt + 1
                  /\ UNCHANGED << rt_pc, rt_out >>
    /\ UNCHANGED << rt_fn, rt_max_retries, rt_has_on_retry >>
    /\ UNCHANGED notRetryVars

\* The wrapper of retry_with_backoff
RetryWrapper ==
    /\ rt_fn = "retry_with_backoff"
    /\ RetryIteration(RetryConfigOf(rt_fn, rt_max_retries))

\* RetryContext.execute
RetryContextExecute ==
    /\ rt_fn = "RetryContext.execute"
    /\ RetryIteration(RetryConfigOf(rt_fn, rt_max_retries))

\* retry_llm_call
RetryLlmCall ==
    /\ rt_fn = "retry_llm_call"
    /\ RetryIteration(RetryConfigOf(rt_fn, rt_max_retries))

RetryNext ==
    \/ RetryWrapper
    \/ RetryContextExecute
    \/ RetryLlmCall

RetrySpec == RetryInit /\ [][RetryNext]_vars

\* The configs calculate_delay is explored with: base_delay 1, 10 and 30
\* seconds, max_delay 20 and 60 seconds, exponential_base 2 and 3, jitter
\* on and off
DelayConfigs ==
    { [ RetryConfig(0, m) EXCEPT !.base_delay = b,
                                 !.exponential_base = e,
                                 !.jitter = j ] :
        b \in {10, 100, 300}, m \in {200, 600}, e \in {2, 3}, j \in BOOLEAN }

DelayInit ==
    /\ TaskLoopAtRest
    /\ docker_up = FALSE
    /\ SandboxIdle
    /\ RetryIdle
    /\ cd_config \in DelayConfigs
    /\ cd_n = 0
    /\ cd_delays = <<>>
    /\ PipeIdle
    /\ ServicesIdle

\* calculate_delay(cd_n, cd_config) is called; the next call is made with
\* the next attempt number
CalculateDelay ==
    /\ cd_n < DelayAttempts
    /\ \E u \in JitterDraws :
          cd_delays' = Append(cd_delays, calculate_delay(cd_n, cd_config, u))
    /\ cd_n' = cd_n + 1
    /\ UNCHANGED cd_config
    /\ UNCHANGED notDelayVars

DelayNext == CalculateDelay

DelaySpec == DelayInit /\ [][DelayNext]_vars

\* ------------------------------------------------------------------------
\* core/memory.py: Memory instances opened on one backing file
\* ------------------------------------------------------------------------

\* The task loop, the sandbox, the retry engine and run_pipeline are at rest
CoreIdle ==
    /\ TaskLoopAtRest
    /\ docker_up = FALSE
    /\ SandboxIdle
    /\ RetryIdle
    /\ DelayIdle
    /\ PipeIdle

\* The values passed to set: two strings, a tuple, a Task (a dataclass) and
\* a set
MemValues ==
    { PyValue("str", <<"x">>), PyValue("str", <<"y">>), PyValue("tuple", <<1, 2>>),
      PyValue("Task", <<0, "d", "pending">>), PyValue("set", <<1, 2>>) }

\* serialize: asdict of a dataclass; a str, a tuple or a set is returned
\* as it is
serialize(v) ==
    IF v.type = "Task" THEN PyValue("dict", v.items) ELSE v

\* What json.dump can encode
JsonEncodable == {"str", "list", "tuple", "dict", "NoneType"}

\* The JSON text of a value, as json.load reads it back: a tuple is written
\* as an array
JsonText(v) ==
    IF v.type = "tuple" THEN PyValue("list", v.items) ELSE v

\* _save: open(filepath, 'w') empties the file and json.dump writes the
\* data into it; a value it cannot encode raises in the middle of the
\* writing, the exception is caught, and the text written so far stays
json_dump(data) ==
    IF \E k \in DOMAIN data : data[k].type \notin JsonEncodable
    THEN File("cut off", <<>>)
    ELSE File("json", [k \in DOMAIN data |-> JsonText(data[k])])

\* _load: the data of the file; {} when json.load raises
json_load(file) ==
    IF file.state = "json" THEN file.data ELSE <<>>

\* Memory.get(key): the value under the key, None when there is none
get(data, key) == IF key \in DOMAIN data THEN data[key] ELSE NoValue

\* `del self.data[key]`
Without(data, key) == [k \in DOMAIN data \ {key} |-> data[k]]

\* The first instance is constructed before the file exists
MemoryInit ==
    /\ CoreIdle
    /\ TwinIdle
    /\ MemIdle
    /\ GroqIdle
    /\ LimiterIdle

\* Memory(filepath): the data is empty, or loaded when the file exists
MemoryNew(i) ==
    /\ mm_born[i] = -1
    /\ mm_born' = [mm_born EXCEPT ![i] = mm_n]
    /\ mm_data' = [mm_data EXCEPT ![i] = IF mm_file.state = "absent" THEN <<>>
                                         ELSE json_load(mm_file)]
    /\ UNCHANGED << mm_file, mm_last, mm_writers, mm_plain, mm_n >>
    /\ UNCHANGED notMemVars

\* Memory.set(k, v): the serialized value is stored and the data saved
MemorySet(i, k, v) ==
    /\ mm_born[i] >= 0
    /\ mm_n < MaxOps
    /\ mm_data' = [mm_data EXCEPT ![i] = (k :> serialize(v)) @@ mm_data[i]]
    /\ mm_file' = json_dump(mm_data'[i])
    /\ mm_last' = [mm_last EXCEPT ![k] = v]
    /\ mm_writers' = mm_writers \cup {i}
    /\ mm_plain' = (mm_plain /\ v.type = "str")
    /\ mm_n' = mm_n + 1
    /\ UNCHANGED mm_born
    /\ UNCHANGED notMemVars

\* Memory.delete(k): a key that is there is removed and the data saved
MemoryDelete(i, k) ==
    /\ mm_born[i] >= 0
    /\ mm_n < MaxOps
    /\ IF k \in DOMAIN mm_data[i]
       THEN /\ mm_data' = [mm_data EXCEPT ![i] = Without(mm_data[i], k)]
            /\ mm_file' = json_dump(mm_data'[i])
       ELSE UNCHANGED << mm_data, mm_file >>
    /\ mm_last' = [mm_last EXCEPT ![k] = NoValue]
    /\ mm_writers' = mm_writers \cup {i}
    /\ mm_n' = mm_n + 1
    /\ UNCHANGED << mm_born, mm_plain >>
    /\ UNCHANGED notMemVars

\* Memory.clear(): the data is emptied and saved
MemoryClear(i) ==
    /\ mm_born[i] >= 0
    /\ mm_n < MaxOps
    /\ mm_data' = [mm_data EXCEPT ![i] = <<>>]
    /\ mm_file' = json_dump(mm_data'[i])
    /\ mm_last' = [k \in Keys |-> NoValue]
    /\ mm_writers' = mm_writers \cup {i}
    /\ mm_n' = mm_n + 1
    /\ UNCHANGED << mm_born, mm_plain >>
    /\ UNCHANGED notMemVars

Construct == \E i \in Instances : MemoryNew(i)
SetCall == \E i \in Instances, k \in Keys, v \in MemValues : MemorySet(i, k, v)
DeleteCall == \E i \in Instances, k \in Keys : MemoryDelete(i, k)
ClearCall == \E i \in Instances : MemoryClear(i)

MemoryNext ==
    \/ Construct
    \/ SetCall
    \/ DeleteCall
    \/ ClearCall

MemorySpec == MemoryInit /\ [][MemoryNext]_vars

\* ------------------------------------------------------------------------
\* core/llm_provider.py: GroqClient.chat_with_messages
\* ------------------------------------------------------------------------

\* GroqClient.FALLBACK_MODELS
FALLBACK_MODELS == << "llama-3.1-8b-instant", "gemma2-9b-it", "mixtral-8x7b-32768" >>

\* The models a client is configured with: the default, or one that is a
\* fallback model too
PrimaryModels == { DefaultGroqModel, "gemma2-9b-it" }

\* str(e) of the exceptions client.chat.completions.create raises: the
\* rate limit of the mocked test, the API's rate limit, a rejected key
GroqErrors ==
    { "rate_limit exceeded",
      "Error code: 429 - Rate limit reached",
      "Error code: 401 - Invalid API Key" }

\* str.lower() on one character
LowerChar(c) ==
    CASE c = "A" -> "a" [] c = "E" -> "e" [] c = "I" -> "i" [] c = "K" -> "k"
      [] c = "P" -> "p" [] c = "R" -> "r" [] OTHER -> c

\* str.lower()
RECURSIVE LowerStr(_)
LowerStr(text) ==
    IF text = "" THEN ""
    ELSE LowerChar(SubSeq(text, 1, 1)) \o LowerStr(SubSeq(text, 2, Len(text)))

\* `needle in text`
InText(needle, text) ==
    \E i \in 1..(Len(text) - Len(needle) + 1) :
        SubSeq(text, i, i + Len(needle) - 1) = needle

\* Faulty variant of IsRateLimit: every error is taken for a rate limit
IsRateLimit_any(error_str) == TRUE

\* `"rate_limit" in error_str.lower() or "429" in error_str`
IsRateLimit(error_str) ==
    InText("rate_limit", LowerStr(error_str)) \/ InText("429", error_str)

\* The first model of the list that is not marked, none when all are
RECURSIVE FirstUnmarked(_, _)
FirstUnmarked(models, marked) ==
    IF models = <<>> THEN None
    ELSE IF Head(models) \notin marked THEN Head(models)
    ELSE FirstUnmarked(Tail(models), marked)

\* Faulty variant of _get_available_model: the primary model, marked or not
get_available_model_primary(primary, marked) == primary

\* _get_available_model: the primary model unless it is marked, else the
\* first fallback model not marked, else the primary model anyway
get_available_model(primary, marked) ==
    IF primary \notin marked THEN primary
    ELSE IF FirstUnmarked(FALLBACK_MODELS, marked) # None
    THEN FirstUnmarked(FALLBACK_MODELS, marked)
    ELSE primary

\* range(len(self.FALLBACK_MODELS) + 2)
GroqAttempts == Len(FALLBACK_MODELS) + 2

\* A client is constructed
GroqInit ==
    /\ CoreIdle
    /\ TwinIdle
    /\ MemIdle
    /\ LimiterIdle
    /\ gq_primary \in PrimaryModels
    /\ gq_current = gq_primary
    /\ gq_marked = {}
    /\ gq_pc = "idle"
    /\ gq_attempt = 0
    /\ gq_calls = <<>>
    /\ gq_out = None
    /\ gq_requests = 0

\* chat_with_messages is called
GroqChat ==
    /\ gq_pc \in {"idle", "returned", "raised"}
    /\ gq_requests < MaxRequests
    /\ gq_requests' = gq_requests + 1
    /\ gq_pc' = "loop"
    /\ gq_attempt' = 0
    /\ gq_calls' = <<>>
    /\ gq_out' = None
    /\ UNCHANGED << gq_primary, gq_marked, gq_current >>
    /\ UNCHANGED notGroqVars

\* One pass of the loop: the API is called with the available model; its
\* answer is returned; a rate-limit error marks the model and the loop goes
\* on, raising the last error when it is over; another error is raised
GroqAttempt ==
    /\ gq_pc = "loop"
    /\ gq_attempt < GroqAttempts
    /\ LET model == get_available_model(gq_primary, gq_marked) IN
       /\ gq_current' = model
       /\ \E outcome \in {"ok"} \cup GroqErrors :
             /\ gq_calls' = Append(gq_calls, [model |-> model, outcome |-> outcome,
                                              marked |-> gq_marked])
             /\ IF outcome = "ok"
                THEN /\ gq_pc' = "returned"
                     /\ gq_out' = "ok"
                     /\ UNCHANGED << gq_marked, gq_attempt >>
                ELSE IF IsRateLimit(outcome)
                THEN /\ gq_marked' = gq_marked \cup {model}
                     /\ gq_attempt' = gq_attempt + 1
                     /\ IF gq_attempt + 1 < GroqAttempts
                        THEN UNCHANGED << gq_pc, gq_out >>
                        ELSE gq_pc' = "raised" /\ gq_out' = outcome
                ELSE /\ gq_pc' = "raised"
                     /\ gq_out' = outcome
                     /\ UNCHANGED << gq_marked, gq_attempt >>
    /\ UNCHANGED << gq_primary, gq_requests >>
    /\ UNCHANGED notGroqVars

GroqNext ==
    \/ GroqChat
    \/ GroqAttempt

GroqSpec == GroqInit /\ [][GroqNext]_vars

\* ------------------------------------------------------------------------
\* web/app.py: RateLimiter.is_allowed
\* ------------------------------------------------------------------------

\* The limiter of the model: RateLimiter(max_requests=2, window_seconds=2)
max_requests == 2
window_seconds == 2

\* `now - t < self.window_seconds`
StillInWindow(now, t) == now - t < window_seconds

\* The list of a key with the old requests cleaned out
Cleaned(times, now) == SelectSeq(times, LAMBDA t : StillInWindow(now, t))

\* `len(self.requests[key]) >= self.max_requests`
AtLimit(times) == Len(times) >= max_requests

\* The server is started
LimiterInit ==
    /\ CoreIdle
    /\ TwinIdle
    /\ MemIdle
    /\ GroqIdle
    /\ LimiterIdle

\* Time passes
Tick ==
    /\ rl_clock < MaxClock
    /\ rl_clock' = rl_clock + 1
    /\ UNCHANGED << rl_requests, rl_threads, rl_admitted, rl_denied, rl_stale,
                    rl_calls >>
    /\ UNCHANGED notLimVars

\* A request thread enters is_allowed(key): `now = time.time()`, before the
\* lock is taken
ReadClock(t, k) ==
    /\ rl_threads[t].pc = "outside"
    /\ rl_calls < MaxAllowedCalls
    /\ rl_calls' = rl_calls + 1
    /\ rl_threads' = [rl_threads EXCEPT ![t] = [pc |-> "stamped", key |-> k,
                                                now |-> rl_clock]]
    /\ UNCHANGED << rl_clock, rl_requests, rl_admitted, rl_denied, rl_stale >>
    /\ UNCHANGED notLimVars

\* The thread holds the lock: the list of the key is cleaned with the
\* thread's `now`, the request is denied when the list is full, else `now`
\* is recorded and the request admitted
WithLock(t) ==
    /\ rl_threads[t].pc = "stamped"
    /\ LET k     == rl_threads[t].key
           now   == rl_threads[t].now
           times == Cleaned(rl_requests[k], now)
       IN /\ IF AtLimit(times)
             THEN /\ rl_requests' = [rl_requests EXCEPT ![k] = times]
                  /\ rl_denied' = [rl_denied EXCEPT ![k] =
                                      Append(@, [now |-> now, at |-> rl_clock])]
                  /\ UNCHANGED rl_admitted
             ELSE /\ rl_requests' = [rl_requests EXCEPT ![k] = Append(times, now)]
                  /\ rl_admitted' = [rl_admitted EXCEPT ![k] =
                                        Append(@, [now |-> now, at |-> rl_clock])]
                  /\ UNCHANGED rl_denied
          /\ rl_stale' = (rl_stale \/ \E i \in 1..Len(rl_requests[k]) :
                                         rl_requests[k][i] > now)
    /\ rl_threads' = [rl_threads EXCEPT ![t] = Outside]
    /\ UNCHANGED << rl_clock, rl_calls >>
    /\ UNCHANGED notLimVars

Enter == \E t \in Threads, k \in ClientKeys : ReadClock(t, k)
Decide == \E t \in Threads : WithLock(t)

LimiterNext ==
    \/ Tick
    \/ Enter
    \/ Decide

LimiterSpec == LimiterInit /\ [][LimiterNext]_vars

\* ------------------------------------------------------------------------
\* web/app.py: two jobs run run_pipeline at the same time
\* ------------------------------------------------------------------------

\* The artifact of task k of a job
ArtifactOf(j, k) == <<j, k>>

\* What an earlier process left in output/shared_context.json
OldSession == { <<"old", 1>> }

\* SharedContext(): an object that holds what the file holds, nothing when
\* there is no file
Loaded(file) == IF file.exists THEN file.holds ELSE {}

\* The server is started: the SharedContext made at import has loaded the
\* file, if there is one
TwinInit ==
    /\ CoreIdle
    /\ MemIdle
    /\ GroqIdle
    /\ LimiterIdle
    /\ tw_file \in {NoFile, ContextFile(OldSession)}
    /\ tw_objects = << Loaded(tw_file) >>
    /\ tw_shared = 1
    /\ tw_orch = 1
    /\ tw_pc = [j \in Jobs |-> "start"]
    /\ tw_k = [j \in Jobs |-> 0]
    /\ tw_read = [j \in Jobs |-> [summary |-> {}, own |-> {}]]
    /\ tw_own = [j \in Jobs |-> {}]
    /\ tw_overlap = FALSE

\* A job is under way: its run_pipeline call has begun and not ended
UnderWay(pcs, j) == pcs[j] \notin {"start", "done"}

\* run_pipeline begins with reset_shared_context(): the object the module
\* holds is emptied, its file removed, and the module holds none
JobReset(j) ==
    /\ tw_pc[j] = "start"
    /\ tw_pc' = [tw_pc EXCEPT ![j] = "reset"]
    /\ IF tw_shared # NoObject
       THEN /\ tw_objects' = [tw_objects EXCEPT ![tw_shared] = {}]
            /\ tw_file' = NoFile
       ELSE UNCHANGED << tw_objects, tw_file >>
    /\ tw_shared' = NoObject
    /\ tw_overlap' = (tw_overlap \/ \E i \in Jobs \ {j} : UnderWay(tw_pc, i))
    /\ UNCHANGED << tw_k, tw_orch, tw_read, tw_own >>
    /\ UNCHANGED notTwinVars

\* `shared_context = get_shared_context()`: the object the module holds, a
\* new one when it holds none, becomes the orchestrator's
JobGet(j) ==
    /\ tw_pc[j] = "reset"
    /\ tw_pc' = [tw_pc EXCEPT ![j] = "task"]
    /\ IF tw_shared = NoObject
       THEN /\ tw_objects' = Append(tw_objects, Loaded(tw_file))
            /\ tw_shared' = Len(tw_objects) + 1
       ELSE UNCHANGED << tw_objects, tw_shared >>
    /\ tw_orch' = tw_shared'
    /\ UNCHANGED << tw_k, tw_file, tw_read, tw_own, tw_overlap >>
    /\ UNCHANGED notTwinVars

\* develop_with_retry is entered for the next task of the job: it reads the
\* summary of the orchestrator's shared context
JobRead(j) ==
    /\ tw_pc[j] = "task"
    /\ tw_k[j] < TwinTasks
    /\ tw_pc' = [tw_pc EXCEPT ![j] = "running"]
    /\ tw_read' = [tw_read EXCEPT ![j] = [summary |-> tw_objects[tw_orch],
                                          own     |-> tw_own[j]]]
    /\ UNCHANGED << tw_k, tw_objects, tw_shared, tw_orch, tw_file, tw_own,
                    tw_overlap >>
    /\ UNCHANGED notTwinVars

\* develop_with_retry has returned: the artifact of a task that passed is
\* added to the orchestrator's shared context, which is saved; the job
\* goes to its next task, or ends
JobFinish(j) ==
    /\ tw_pc[j] = "running"
    /\ \E passed \in BOOLEAN :
          IF StoresArtifact(passed)
          THEN /\ tw_objects' = [tw_objects EXCEPT ![tw_orch] =
                                    @ \cup {ArtifactOf(j, tw_k[j] + 1)}]
               /\ tw_file' = ContextFile(tw_objects'[tw_orch])
               /\ tw_own' = [tw_own EXCEPT ![j] = @ \cup {ArtifactOf(j, tw_k[j] + 1)}]
          ELSE UNCHANGED << tw_objects, tw_file, tw_own >>
    /\ tw_k' = [tw_k EXCEPT ![j] = @ + 1]
    /\ tw_pc' = [tw_pc EXCEPT ![j] = IF tw_k[j] + 1 < TwinTasks THEN "task" ELSE "done"]
    /\ UNCHANGED << tw_shared, tw_orch, tw_read, tw_overlap >>
    /\ UNCHANGED notTwinVars

ResetStep == \E j \in Jobs : JobReset(j)
GetStep == \E j \in Jobs : JobGet(j)
ReadStep == \E j \in Jobs : JobRead(j)
FinishStep == \E j \in Jobs : JobFinish(j)

TwinNext ==
    \/ ResetStep
    \/ GetStep
    \/ ReadStep
    \/ FinishStep

TwinSpec == TwinInit /\ [][TwinNext]_vars

\* ------------------------------------------------------------------------
\* Properties
\* ------------------------------------------------------------------------

Attempts == 1..Len(hist)
Returned == pc = "returned"
SourceOf(i) == Catalogue[hist[i].art].src
ErrorOf(i) == hist[i].code.result.error

\* C1: an artifact the safety filter rejects (the attempt's outcome is the
\* filter's security violation) reaches no isolation backend: no exec in the
\* host interpreter, no child process and no container is started for it.
C1_RejectedReachesNoBackend ==
    \A i \in Attempts :
        ErrorOf(i).kind = "Security violation" => hist[i].fx = NoEffects

\* C1 witness: an attempt was rejected by the filter although its text also
\* carries a marker that sends safe code to the subprocess backend
C1_Witness ==
    \E i \in Attempts :
        /\ ErrorOf(i).kind = "Security violation"
        /\ \E m \in subprocess_markers : Contains(SourceOf(i), m)

\* C2 (as claimed): a text that compiles and contains os.system ends in a
\* security violation naming that rule, whichever method the developer's
\* sandbox uses.
C2_OsSystemRejectedByEveryMethod ==
    \A i \in Attempts :
        ( /\ Contains(SourceOf(i), <<"os", ".", "system">>)
          /\ Catalogue[hist[i].art].compiles )
        => ErrorOf(i) = Error("Security violation", "System command execution")

\* C3: the loop ends at the first attempt that passes: that attempt is the
\* last one, every earlier one failed and was reviewed, no develop or review
\* call follows it, and the dict returned has its code, passed = TRUE and
\* attempts = its 1-based index.
C3_ReturnsAtFirstPass ==
    \A i \in Attempts :
        hist[i].code.status = "passed" =>
            /\ i = Len(hist)
            /\ Returned
            /\ ret = ReturnDict(hist[i].code, evaluate_code(hist[i].code), "", i, TRUE)
            /\ developCalls = i
            /\ reviewCalls = i - 1
            /\ ~hist[i].reviewed
            /\ \A j \in 1..(i - 1) : hist[j].code.status = "failed"

\* C3 witness: a pass on the second of three attempts allowed
C3_Witness ==
    /\ Returned
    /\ ret.passed
    /\ max_retries = 3
    /\ Len(hist) = 2
    /\ hist[1].code.status = "failed"

\* C4: the number of developer.develop calls, of attempts made and the
\* attempts count returned never exceed max_retries.
C4_AttemptsWithinBudget ==
    /\ developCalls <= max_retries
    /\ Len(hist) <= max_retries
    /\ Returned => ret.attempts <= max_retries

\* C4 witness: the whole budget of three was used
C4_Witness ==
    /\ Returned
    /\ max_retries = 3
    /\ developCalls = 3
    /\ ret.attempts = 3

\* C5: when every attempt fails, exactly max_retries attempts are made, the
\* dict returned has passed = FALSE and attempts = max_retries, and the
\* critic is asked after each failing attempt but the last.
C5_AllFailUsesBudget ==
    (Returned /\ ~ret.passed) =>
        /\ Len(hist) = max_retries
        /\ developCalls = max_retries
        /\ ret.attempts = max_retries
        /\ reviewCalls = (IF max_retries = 0 THEN 0 ELSE max_retries - 1)
        /\ \A i \in Attempts :
              /\ hist[i].code.status = "failed"
              /\ hist[i].reviewed <=> i < max_retries

\* C5 witness: three failing attempts, critiques on the first two
C5_Witness ==
    /\ Returned
    /\ ~ret.passed
    /\ max_retries = 3
    /\ hist[1].reviewed
    /\ hist[2].reviewed
    /\ ~hist[3].reviewed

\* C6 (as claimed): a dict returned after a pass holds a passing attempt, and
\* a dict returned on exhaustion holds the code and qa_result of the last
\* attempt made.
C6_BestIsLastAttempt ==
    Returned =>
        IF ret.passed
        THEN ret.code.status = "passed"
        ELSE Len(hist) > 0 =>
                /\ ret.code = hist[Len(hist)].code
                /\ ret.qa_result = evaluate_code(hist[Len(hist)].code)

\* C7 (as claimed): for every max_retries, the dict returned on exhaustion
\* holds the non-null code and qa_result of one of the attempts.
C7_ExhaustedResultNeverEmpty ==
    (Returned /\ ~ret.passed) =>
        /\ ret.code # NoCode
        /\ ret.qa_result # NoQA
        /\ \E i \in Attempts :
              /\ ret.code = hist[i].code
              /\ ret.qa_result = evaluate_code(hist[i].code)

\* C7 (amended): for every max_retries >= 1, the dict returned on exhaustion
\* holds the non-null code and qa_result of one of the attempts, with the
\* critique of the last review made (the empty string when max_retries = 1,
\* where no review is made).
C7_ExhaustedResultOfAnAttempt ==
    (Returned /\ ~ret.passed /\ max_retries >= 1) =>
        /\ ret.code # NoCode
        /\ ret.qa_result # NoQA
        /\ \E i \in Attempts :
              /\ ret.code = hist[i].code
              /\ ret.qa_result = evaluate_code(hist[i].code)
        /\ ret.critique = IF max_retries = 1 THEN ""
                          ELSE hist[max_retries - 1].critique

\* C7 witness: a budget of three exhausted, a dict with code and critique
C7_Witness ==
    /\ Returned
    /\ ~ret.passed
    /\ max_retries = 3
    /\ ret.code # NoCode
    /\ ret.critique \in ReviewerTexts

\* C8 (as claimed): no exception leaves develop_with_retry, whatever the
\* outcome of an attempt.
C8_NoErrorLeavesTaskLoop == pc # "raised"

\* C9 (as claimed): when client.chat raises a transient error in write_code
\* for the first time, write_code invokes it again (a retry) instead of
\* ending the attempt with that failure.
C9_TransientChatFailureIsRetried ==
    [][ (pc = "write_code" /\ chat_error' = "rate limit") => pc' = "write_code" ]_vars

\* C10 (as claimed): an attempt whose Generator invocation failed is recorded
\* as failed with the invocation error as its outcome text.
C10_InvocationErrorIsOutcomeText ==
    \A i \in Attempts :
        hist[i].chat_error # None =>
            /\ hist[i].code.status = "failed"
            /\ ErrorOf(i) = Error("LLM API error", hist[i].chat_error)

\* ------------------------------------------------------------------------
\* Properties of the sandbox backends (SandboxSpec)
\* ------------------------------------------------------------------------

SbDone == sb_pc = "done"
SbSource == Catalogue[sb_code].src
SbHasMarker == \E m \in subprocess_markers : Contains(SbSource, m)

\* A call that ended without a failure of the temp file or of the launch
\* ended as execute_code_safely says for its method
SandboxAgrees ==
    /\ (SbDone /\ sb_calls = 1 /\ sb_config = DefaultConfig
           /\ sb_end \notin {"write error", "OSError"}) =>
          Outcome(sb_result, sb_fx, sb_end)
              = execute_code_safely(sb_code, sb_entry, docker_up)
    /\ sb_pc = "hung" =>
          execute_code_safely(sb_code, sb_entry, docker_up).end = "hang"

\* C11 (as claimed): every call of execute_restricted, execute_subprocess or
\* execute_docker ends, and ends in a returned ExecutionResult: no exception
\* leaves the call and the call does not hang.
C11_BackendsNeverRaise ==
    /\ sb_pc # "hung"
    /\ SbDone => sb_end = "return"

\* C12 (as claimed): a call that timed out in execute_subprocess or
\* execute_docker returns success = FALSE, the timeout error and an
\* execution_time that is at least config.timeout.
C12_TimeoutReportsElapsed ==
    (SbDone /\ sb_timed_out) =>
        /\ sb_end = "return"
        /\ ~sb_result.success
        /\ sb_result.error.kind = "timeout"
        /\ sb_execution_time # <<>>
        /\ sb_execution_time[1] >= sb_timeout

\* C13 (as claimed): once a call that timed out has returned, nothing it
\* started is still running: no child process and no container.
C13_TimeoutLeavesNothingRunning ==
    (SbDone /\ sb_timed_out) => sb_running = NoEffects

\* C14 (as claimed): when a call of execute_subprocess or execute_docker has
\* ended, by a return or by an exception, the temp file it created exists no
\* longer.
C14_TempFileDeletedOnEveryPath ==
    SbDone => sb_temp # "exists"

\* C15: execute_docker on a host where `docker info` fails stays in
\* execute_docker, creates no temp file, enters no backend and returns
\* (does not raise) success = FALSE with the "Docker is not available" error
\* and method_used = "docker".
C15_DockerUnavailableIsReported ==
    (sb_entry = "docker" /\ ~docker_up) =>
        /\ sb_fn = "docker"
        /\ sb_pc \in {"entered", "done"}
        /\ sb_temp = "none"
        /\ sb_fx = NoEffects
        /\ sb_running = NoEffects
        /\ SbDone =>
              /\ sb_end = "return"
              /\ sb_result = ExecutionResult(FALSE, "",
                                 Error("Docker is not available", None), "docker")

\* C15 witness: execute_docker has returned on a host without docker, for a
\* text that would have run
C15_Witness ==
    /\ sb_entry = "docker"
    /\ ~docker_up
    /\ SbDone
    /\ sb_code = "print"
    /\ sb_result.method_used = "docker"

\* C17: a text with one of the markers 'input(', 'eval(', 'tkinter', 'tk.',
\* 'mainloop' passed to execute_restricted is never exec'd in the host
\* interpreter (so it cannot hang it); execute_subprocess is entered only
\* once the dangerous-pattern loop has ended without a match, and a text
\* that passed the loop ends in execute_subprocess.
C17_MarkedTextGoesToSubprocess ==
    (sb_entry = "restricted" /\ sb_pc # "idle" /\ SbHasMarker) =>
        /\ sb_fx.inproc = 0
        /\ sb_pc # "hung"
        /\ sb_fn = "subprocess" =>
              /\ sb_checked
              /\ FirstDangerous(SbSource) = 0
        /\ (SbDone /\ FirstDangerous(SbSource) = 0) => sb_fn = "subprocess"
        /\ (SbDone /\ FirstDangerous(SbSource) # 0) => sb_fx = NoEffects

\* C17 witness: a text with eval( was run in a child process by a call of
\* execute_restricted
C17_Witness ==
    /\ sb_entry = "restricted"
    /\ SbDone
    /\ sb_code = "evalcall"
    /\ sb_fn = "subprocess"
    /\ sb_fx.child = 1
    /\ sb_result.method_used = "subprocess"

\* ------------------------------------------------------------------------
\* Properties of the task loop and the backends (Spec)
\* ------------------------------------------------------------------------

\* C16 (as claimed): after an attempt whose outcome is "Docker is not
\* available", the task loop makes no later attempt on the docker backend.
C16_UnavailableBackendNotRetried ==
    \A i, j \in Attempts :
        (i < j /\ ErrorOf(i).kind = "Docker is not available")
            => hist[j].code.sandbox_method # "docker"

\* C18 (as claimed): an attempt whose text compiles and contains an input(
\* call is a failed attempt, whichever method the developer's sandbox uses.
C18_InteractiveInputFails ==
    \A i \in Attempts :
        ( /\ Contains(SourceOf(i), <<"input", "(">>)
          /\ Catalogue[hist[i].art].compiles )
        => hist[i].code.status = "failed"

\* C19: an attempt whose text does not compile returns from _execute_code
\* with passed = FALSE, the syntax error and method "syntax_check", and no
\* backend is entered for it (execute_code_safely is not called), whichever
\* method the developer's sandbox uses.
C19_UncompilableReachesNoBackend ==
    \A i \in Attempts :
        ~Catalogue[hist[i].art].compiles =>
            /\ hist[i].end = "return"
            /\ hist[i].code.status = "failed"
            /\ hist[i].code.sandbox_method = "syntax_check"
            /\ ErrorOf(i) = Error("Syntax error", None)
            /\ hist[i].fx = NoEffects

\* C19 witness: a truncated text, returned by write_code after its three
\* tries, was the attempt of a developer whose sandbox is the subprocess
\* backend
C19_Witness ==
    \E i \in Attempts :
        /\ hist[i].art = "trunc"
        /\ sandbox_method = "subprocess"
        /\ hist[i].code.sandbox_method = "syntax_check"

\* ------------------------------------------------------------------------
\* Properties of the retry engine (RetrySpec)
\* ------------------------------------------------------------------------

Invocations == 1..Len(rt_log)
RtConfig == RetryConfigOf(rt_fn, rt_max_retries)

\* C20: in retry_with_backoff, RetryContext.execute and retry_llm_call, an
\* exception that should_retry classifies as non-retryable is raised to the
\* caller unchanged when it first occurs: the invocation that raised it is
\* the last one, and no delay is slept and on_retry is not called for it
\* (the sleeps and on_retry calls made are those of the retryable failures
\* before it).
C20_NonRetryablePropagatesAtOnce ==
    \A i \in Invocations :
        (rt_log[i] # Value /\ ~should_retry(rt_log[i], RtConfig)) =>
            /\ i = Len(rt_log)
            /\ rt_pc = "raised"
            /\ rt_out = <<rt_log[i]>>
            /\ rt_sleeps = i - 1
            /\ Len(rt_callbacks) = (IF rt_has_on_retry THEN i - 1 ELSE 0)

\* C20 witness: retry_llm_call with two retries left raised "529", which its
\* config does not retry, after one retried failure
C20_Witness ==
    /\ rt_fn = "retry_llm_call"
    /\ rt_max_retries = 2
    /\ rt_has_on_retry
    /\ rt_pc = "raised"
    /\ rt_log = << Exc("ConnectionError", <<"refused">>), Exc("RuntimeError", <<"529">>) >>
    /\ rt_sleeps = 1

IsRetryable(i) == rt_log[i] # Value /\ should_retry(rt_log[i], RtConfig)

\* C21: when every invocation fails with a retryable exception, the loop
\* does not stop before the operation has been invoked max_retries + 1
\* times, and then the call ends by raising the exception of the last
\* invocation itself: it does not return and raises no other exception.
C21_ExhaustionReraisesLast ==
    (\A i \in Invocations : IsRetryable(i)) =>
        /\ rt_pc \in {"loop", "raised"}
        /\ rt_pc = "loop" =>
              /\ Len(rt_log) <= rt_max_retries
              /\ rt_attempt = Len(rt_log)
        /\ rt_pc = "raised" =>
              /\ Len(rt_log) = rt_max_retries + 1
              /\ rt_out = <<rt_log[Len(rt_log)]>>

\* C21 witness: the wrapper of retry_with_backoff raised the third of three
\* different retryable exceptions
C21_Witness ==
    /\ rt_fn = "retry_with_backoff"
    /\ rt_max_retries = 2
    /\ rt_pc = "raised"
    /\ rt_log = << Exc("ConnectionError", <<"refused">>),
                   Exc("ValueError", <<"Rate", "Limit", "exceeded">>),
                   Exc("RuntimeError", <<"529">>) >>
    /\ rt_out = << Exc("RuntimeError", <<"529">>) >>

\* C22: in the function decorated with retry_with_backoff, a successful
\* invocation ends the call: the value is returned after k + 1 invocations
\* and k delays, where the k invocations before it raised retryable
\* exceptions (k = 0: one invocation, nothing slept); and the call does not
\* give up while k <= max_retries: it raises only an exception that is not
\* retryable or the one of invocation max_retries + 1.
C22_ReturnsAfterKRetries ==
    rt_fn = "retry_with_backoff" =>
        /\ \A i \in Invocations :
              rt_log[i] = Value =>
                  /\ i = Len(rt_log)
                  /\ i <= rt_max_retries + 1
                  /\ rt_pc = "returned"
                  /\ rt_out = <<Value>>
                  /\ rt_sleeps = i - 1
                  /\ \A j \in 1..(i - 1) : IsRetryable(j)
        /\ rt_pc = "loop" =>
              /\ Len(rt_log) <= rt_max_retries
              /\ rt_sleeps = Len(rt_log)
        /\ rt_pc = "raised" =>
              \/ ~IsRetryable(Len(rt_log))
              \/ Len(rt_log) = rt_max_retries + 1

\* C22 witness: success on the last invocation allowed, after two retries
C22_Witness ==
    /\ rt_fn = "retry_with_backoff"
    /\ rt_max_retries = 2
    /\ rt_pc = "returned"
    /\ Len(rt_log) = 3
    /\ rt_sleeps = 2
    /\ rt_out = <<Value>>

\* ------------------------------------------------------------------------
\* Properties of calculate_delay (DelaySpec)
\* ------------------------------------------------------------------------

DelayNonDecreasing ==
    \A i \in 1..(Len(cd_delays) - 1) : cd_delays[i] <= cd_delays[i + 1]

DelayCapped ==
    \A i \in 1..Len(cd_delays) : cd_delays[i] <= cd_config.max_delay

SbSafe == FirstDangerous(SbSource) = 0

\* C26 (as claimed): when the same safe text has been run again through the
\* same backend with the same config, and both calls returned, the two
\* ExecutionResults have the same success and the same output.
C26_RepeatedRunAgrees ==
    (SbDone /\ SbSafe /\ sb_end = "return") =>
        \A i \in 1..Len(sb_earlier) :
            sb_earlier[i].end = "return" =>
                /\ sb_result.success = sb_earlier[i].result.success
                /\ sb_result.output = sb_earlier[i].result.output

\* The patterns of dangerous_patterns that occur in the text of the call
SbHits ==
    { i \in 1..Len(dangerous_patterns) :
        Contains(SbSource, dangerous_patterns[i].pattern) }

\* What the dangerous-pattern loop of execute_restricted may not touch
sbOutsideCheck == << sbBetweenCalls, sb_host, sb_fn, sb_fx, sb_temp, sb_running,
                     sb_timed_out, sb_elapsed, notSandboxVars >>

\* C27: execute_restricted reports, for a text in which patterns of
\* dangerous_patterns occur, the one that comes first in the list (not the
\* one that comes first in the text) as the violated rule, with success =
\* FALSE and without running the text; a text in which none occurs passes
\* the loop and never ends in a security violation; the loop changes
\* nothing but the position of the call and, on a match, its result.
C27_FirstPatternOfTheListIsReported ==
    /\ [](sb_entry = "restricted" =>
            /\ (SbDone /\ SbHits # {}) =>
                  /\ sb_end = "return"
                  /\ ~sb_result.success
                  /\ sb_result.error.kind = "Security violation"
                  /\ \E i \in SbHits :
                        /\ \A j \in SbHits : i <= j
                        /\ sb_result.error.rule = dangerous_patterns[i].reason
                  /\ sb_fx = NoEffects
                  /\ ~sb_checked
            /\ (SbHits = {} /\ sb_pc \notin {"idle", "entered"}) =>
                  /\ sb_checked
                  /\ sb_result.error.kind # "Security violation")
    /\ [][RestrictedCheck => UNCHANGED sbOutsideCheck]_vars

\* C27 witness: a text in which Popen comes before os.system was refused
\* for os.system, the first of the list
C27_Witness ==
    /\ sb_entry = "restricted"
    /\ SbDone
    /\ sb_code = "both"
    /\ SbSource[1] = "Popen"
    /\ sb_result.error.rule = "System command execution"

\* C28 (as claimed): the output of every ExecutionResult a backend returns
\* is at most config.max_output_size long, whatever path returned it.
C28_OutputWithinMaxOutputSize ==
    (SbDone /\ sb_end = "return") =>
        Len(sb_result.output) <= sb_config.max_output_size

\* C28 (amended): the output of every ExecutionResult a backend returns is
\* at most config.max_output_size long, except where execute_subprocess
\* skipped the execution: the output is then one of its two fixed messages,
\* whole, whatever max_output_size is.
C28_CapturedOutputWithinMaxOutputSize ==
    (SbDone /\ sb_end = "return") =>
        IF sb_result.method_used = "subprocess_skip"
        THEN sb_result.output \in {InteractiveSkipMessage, MainloopSkipMessage}
        ELSE Len(sb_result.output) <= sb_config.max_output_size

\* C28 witness: a text that printed 13 characters was run with
\* max_output_size = 10 and its output came back 10 characters long
C28_Witness ==
    /\ SbDone
    /\ sb_end = "return"
    /\ sb_code = "long"
    /\ Len(Catalogue[sb_code].stdout) = 13
    /\ sb_config.max_output_size = 10
    /\ sb_result.success
    /\ Len(sb_result.output) = 10

\* The text of the call was exec'd in the host interpreter by
\* execute_restricted
SbExecd == sb_entry = "restricted" /\ sb_fn = "restricted" /\ sb_fx.inproc = 1

\* The modules the text of the call imports that are not in allowed_imports
SbUnlisted == ImportedModules(SbSource) \ sb_config.allowed_imports

\* The modules bound in the globals the text was exec'd with: the allowed
\* modules, imported before the exec, and those its imports returned
ModulesBound(src, config) ==
    config.allowed_imports
        \cup { name \in ImportedModules(src) : safe_import(name, config.allowed_imports) }

PlInTask == pl_pc = "tasks" /\ pc # "idle"

\* The lines a text alone puts into a summary
LinesOf(text) ==
    get_context_summary(add_generated_code(EmptyContext, 1, text)) \ NoContext

\* C24: while develop_with_retry runs for task k (so at each of its
\* Generator calls) the loops of tasks 1..k-1 have all returned and their
\* entries are in the session log, in plan order, and no later task has been
\* started; the summary the task read on entry is that of a shared context
\* which holds the artifact of every earlier task that passed, and shows
\* its classes, functions and import lines.
C24_TasksOneAfterAnother ==
    PlInTask =>
        /\ pl_k \in 1..Len(pl_tasks)
        /\ Len(pl_session_log) = pl_k - 1
        /\ \A j \in pl_k..Len(pl_tasks) : pl_tasks[j] = "pending"
        /\ context_summary = get_context_summary(pl_context)
        /\ \A j \in 1..(pl_k - 1) :
              /\ pl_session_log[j].task = j
              /\ pl_tasks[j] \in {"complete", "failed"}
              /\ pl_tasks[j] = "complete" =>
                    /\ j \in DOMAIN pl_context.code_blocks
                    /\ LinesOf(pl_context.code_blocks[j]) \subseteq context_summary

\* C24 witness: the Generator is being called for the second task after the
\* first passed with a text that defines f, and the summary read shows f
C24_Witness ==
    /\ PlInTask
    /\ pl_k = 2
    /\ pc = "write_code"
    /\ pl_tasks[1] = "complete"
    /\ pl_context.code_blocks[1] = "func"
    /\ <<"def", "f">> \in context_summary

\* The futures as_completed has yielded
PlCollected == { pl_collected[i] : i \in 1..Len(pl_collected) }

\* C25: the two futures exist only once every task loop has returned and
\* the final code is assembled and written; each holds nothing before its
\* own step has ended; test_code is the result of the tests future and of
\* no other, readme that of the docs future; and run_pipeline never reaches
\* a write of test_code or readme with None in it, in whichever order the
\* two steps end and whether or not client.chat raised in them.
C25_BothResultsBeforeTheWrite ==
    /\ (\E w \in Workers : pl_futures[w] # "none") =>
          /\ pl_pc \in {"parallel", "done"}
          /\ pl_k = Len(pl_tasks)
          /\ Len(pl_session_log) = Len(pl_tasks)
          /\ pc = "idle"
          /\ pl_final_code # <<>>
          /\ "final_program.py" \in pl_files
    /\ \A w \in Workers :
          /\ pl_futures[w] \in {"none", "running"} =>
                (pl_results[w] = None /\ w \notin PlCollected)
          /\ pl_futures[w] = "returned" => pl_results[w] # None
    /\ pl_test_code = (IF "tests" \in PlCollected THEN pl_results["tests"] ELSE None)
    /\ pl_readme = (IF "docs" \in PlCollected THEN pl_results["docs"] ELSE None)
    /\ pl_pc # "raised"
    /\ (pl_files \cap {"test_program.py", "README.md"} # {}) =>
          /\ pl_pc = "done"
          /\ PlCollected = Workers
          /\ pl_test_code # None
          /\ pl_readme # None

\* C25 witness: the documentation step ended first, client.chat raised in
\* the test step, and both files were written
C25_Witness ==
    /\ pl_pc = "done"
    /\ pl_collected = <<"docs", "tests">>
    /\ pl_test_code = "# Test generation failed: rate limit"
    /\ pl_readme = WorkerTexts["docs"]
    /\ {"test_program.py", "README.md"} \subseteq pl_files

\* ------------------------------------------------------------------------
\* Result codes of a task (Spec)
\* ------------------------------------------------------------------------

\* develop_with_retry has returned after at least one attempt and the safety
\* filter refused the text of every attempt
AllAttemptsBlocked ==
    /\ Returned
    /\ Attempts # {}
    /\ \A i \in Attempts : ErrorOf(i).kind = "Security violation"

\* C30: a task whose every attempt was refused by the safety filter ends
\* with the result code "unsafe".
C30_AllBlockedEndsUnsafe ==
    AllAttemptsBlocked => TaskStatus(ret) = "unsafe"

\* What the code does instead: such a task ends like any other task whose
\* budget is spent, not passed and with the code "failed"
C30_AllBlockedEndsFailed ==
    AllAttemptsBlocked =>
        (~ret.passed /\ ret.code.status = "failed" /\ TaskStatus(ret) = "failed")

\* ------------------------------------------------------------------------
\* Configuration errors (ConfigSpec)
\* ------------------------------------------------------------------------

\* The developer holds a name execute_code_safely does not accept
InvalidBackend == sandbox_method \notin ExecutionMethod

\* C31: a developer with an invalid backend name never gets as far as an
\* attempt: developer.develop is not called, the Generator is not asked and
\* no attempt is on record.
C31_InvalidBackendRejectedAtStartup ==
    InvalidBackend =>
        (developCalls = 0 /\ pc # "write_code" /\ hist = <<>>)

\* What the code does instead: the name is looked at by execute_code_safely
\* only, so the ValueError is raised inside an attempt, after the Generator
\* has answered (or a remembered text was found) and the text has compiled
\* and has no GUI marker
C31_InvalidBackendFoundInsideAnAttempt ==
    (pc = "raised" /\ exception = "ValueError") =>
        /\ InvalidBackend
        /\ developCalls >= 1
        /\ hist # <<>>
        /\ hist[Len(hist)].end = "ValueError"
        /\ Catalogue[hist[Len(hist)].art].compiles

\* ------------------------------------------------------------------------
\* Where the text of a retry comes from (Spec)
\* ------------------------------------------------------------------------

\* C32: the text of every attempt after the first comes from a Generator
\* call made for that attempt, with the critique of the attempt before it
\* as feedback: it is never a text remembered from an earlier attempt.
C32_EveryRetryAsksTheGenerator ==
    \A i \in Attempts :
        i > 1 =>
            /\ ~hist[i].from_cache
            /\ hist[i - 1].reviewed

\* What the code does instead: a retry whose feedback message is one
\* write_code has already answered gets the remembered text of that earlier
\* attempt, and client.chat is not called
C32_RetryMayReplayARememberedText ==
    \A i \in Attempts :
        (i > 1 /\ hist[i].from_cache) =>
            \E j \in 1..(i - 1) :
                /\ ~hist[j].from_cache
                /\ hist[j].art = hist[i].art
                /\ hist[j].chat_error = None

\* ------------------------------------------------------------------------
\* What the shared context holds (PipelineSpec)
\* ------------------------------------------------------------------------

\* The tasks of the plan whose loop has ended passed
PlPassed == { j \in 1..Len(pl_tasks) : pl_tasks[j] = "complete" }

\* The code blocks of a context put into an empty context again, in the
\* order of the tasks
RECURSIVE Rebuilt(_, _)
Rebuilt(blocks, upto) ==
    IF upto = 0 THEN EmptyContext
    ELSE IF upto \in DOMAIN blocks
    THEN add_generated_code(Rebuilt(blocks, upto - 1), upto, blocks[upto])
    ELSE Rebuilt(blocks, upto - 1)

\* C33: the code blocks of the shared context are those of the tasks that
\* ended passed, each a text that passes when run; the context holds
\* nothing but what these texts put into it, so a summary read by a task
\* names only classes, functions and imports of passing artifacts of
\* earlier tasks of this run; the text of a failed task is in the session
\* log only.
C33_ContextHoldsPassingArtifactsOnly ==
    pl_pc # "idle" =>
        /\ DOMAIN pl_context.code_blocks = PlPassed
        /\ \A j \in PlPassed :
              ExecuteCode(pl_context.code_blocks[j], sandbox_method,
                          docker_up).result.success
        /\ pl_context = Rebuilt(pl_context.code_blocks, Len(pl_tasks))
        /\ PlInTask =>
              /\ context_summary = get_context_summary(pl_context)
              /\ context_summary \ NoContext
                   \subseteq UNION { LinesOf(pl_context.code_blocks[j]) :
                                       j \in PlPassed \cap 1..(pl_k - 1) }

\* C33 witness: the Generator is being called for the second task after the
\* first task failed with a text on record, and the summary it was given
\* names nothing
C33_Witness ==
    /\ PlInTask
    /\ pl_k = 2
    /\ pc = "write_code"
    /\ pl_tasks[1] = "failed"
    /\ pl_session_log[1].has_code
    /\ pl_context = EmptyContext
    /\ context_summary = NoContext

\* ------------------------------------------------------------------------
\* Properties of Memory (MemorySpec)
\* ------------------------------------------------------------------------

\* The instance is constructed and no other instance has made a call
OnlyWriter(i) == mm_born[i] >= 0 /\ mm_writers \subseteq {i}

\* The instance was constructed after the last call: a new instance
NewInstance(j) == mm_born[j] = mm_n

\* What the claim says of the instances, given that only one of them made
\* calls: its get returns the value of the last set of each key, None for
\* a key never set or removed, and so does the get of a new instance
LastSetReturned ==
    \A i \in Instances :
        OnlyWriter(i) =>
            \A k \in Keys :
                /\ get(mm_data[i], k) = mm_last[k]
                /\ \A j \in Instances \ {i} :
                      NewInstance(j) => get(mm_data[j], k) = mm_last[k]

\* C34: after any sequence of set, delete and clear calls on a Memory with
\* a backing file, get(k) returns the value of the last set for k (None
\* when there is none), and a new Memory constructed on the same file
\* returns the same values.
C34_GetReturnsLastSetAndPersists == LastSetReturned

\* What does hold: the same, as long as every value passed to set was a
\* string
C34_HoldsForStrings == mm_plain => LastSetReturned

\* C39: a key that is in the backing file stays in it when a Memory
\* instance opened on the same path performs a set (the values being
\* strings): the plan stored by the planner's instance and the keys stored
\* by the orchestrator's instance are all in output/memory.json in the end.
C39_KeysStayInTheFileAfterASet ==
    [][(SetCall /\ mm_plain' /\ mm_file.state = "json")
          => DOMAIN mm_file.data \subseteq DOMAIN mm_file'.data]_vars

\* What the code does instead: every save writes the data of the saving
\* instance alone, so the file holds the keys of one instance, the last to
\* save, and the keys another instance stored since that one was
\* constructed are gone from it
C39_FileIsTheDataOfOneInstance ==
    (mm_plain /\ mm_file.state = "json") =>
        \E i \in Instances :
            /\ mm_born[i] >= 0
            /\ i \in mm_writers
            /\ mm_file.data = mm_data[i]

\* ------------------------------------------------------------------------
\* Properties of GroqClient (GroqSpec)
\* ------------------------------------------------------------------------

\* The models of a client in the order they are tried
GroqOrder == <<gq_primary>> \o FALLBACK_MODELS

\* The API's rate-limit errors
RateLimitErrors == { "rate_limit exceeded", "Error code: 429 - Rate limit reached" }

\* C35: every API call of a request but the last failed with a rate-limit
\* error; a call that fails so leaves its model marked, and the call after
\* it goes to the first model, primary first and then the fallback models
\* in their order, that is not marked (to the primary model when all are);
\* the request returns at the first call that succeeds, raises at once the
\* error of a call that fails otherwise, and makes at most
\* len(FALLBACK_MODELS) + 2 calls.
C35_FallbackOnRateLimit ==
    /\ Len(gq_calls) <= Len(FALLBACK_MODELS) + 2
    /\ \A j \in 1..Len(gq_calls) :
          LET call == gq_calls[j] IN
          /\ call.model = (IF FirstUnmarked(GroqOrder, call.marked) # None
                           THEN FirstUnmarked(GroqOrder, call.marked)
                           ELSE gq_primary)
          /\ j < Len(gq_calls) =>
                /\ call.outcome \in RateLimitErrors
                /\ gq_calls[j + 1].marked = call.marked \cup {call.model}
          /\ call.outcome \in RateLimitErrors => call.model \in gq_marked
          /\ (j = Len(gq_calls) /\ call.outcome = "ok") =>
                (gq_pc = "returned" /\ gq_out = "ok")
          /\ (j = Len(gq_calls) /\ call.outcome \notin RateLimitErrors \cup {"ok"}) =>
                (gq_pc = "raised" /\ gq_out = call.outcome /\ gq_marked = call.marked)
    /\ gq_pc = "returned" =>
          (gq_calls # <<>> /\ gq_calls[Len(gq_calls)].outcome = "ok")
    /\ gq_pc = "raised" =>
          /\ gq_calls # <<>>
          /\ gq_out = gq_calls[Len(gq_calls)].outcome
          /\ gq_out \in RateLimitErrors => Len(gq_calls) = Len(FALLBACK_MODELS) + 2

\* C35 witness: the primary model and the first fallback model were rate
\* limited and the request returned the answer of the second fallback model
C35_Witness ==
    /\ gq_pc = "returned"
    /\ gq_primary = DefaultGroqModel
    /\ Len(gq_calls) = 3
    /\ gq_calls[1].model = DefaultGroqModel
    /\ gq_calls[2].model = FALLBACK_MODELS[1]
    /\ gq_calls[3].model = FALLBACK_MODELS[2]
    /\ gq_marked = {DefaultGroqModel, FALLBACK_MODELS[1]}

\* ------------------------------------------------------------------------
\* Properties of RateLimiter (LimiterSpec)
\* ------------------------------------------------------------------------

\* The admitted requests of a key whose time is in the window that starts
\* at x
AdmittedIn(k, x) ==
    { i \in 1..Len(rl_admitted[k]) :
        x <= rl_admitted[k][i].now /\ rl_admitted[k][i].now < x + window_seconds }

\* No window of window_seconds has more than max_requests admitted requests
\* of one key
WindowBound ==
    \A k \in ClientKeys, x \in 0..MaxClock :
        Cardinality(AdmittedIn(k, x)) <= max_requests

\* The recorded times of a key are times of admitted requests, and never
\* more than max_requests
SlotsBound ==
    \A k \in ClientKeys :
        /\ Len(rl_requests[k]) <= max_requests
        /\ \A i \in 1..Len(rl_requests[k]) :
              \E j \in 1..Len(rl_admitted[k]) :
                  rl_admitted[k][j].now = rl_requests[k][i]

\* C36: for every key at most max_requests requests are admitted in any
\* window of window_seconds, a denied request is not recorded, and the
\* list of a key never holds more than max_requests times.
C36_AtMostMaxRequestsPerWindow == WindowBound /\ SlotsBound

\* What does hold: a denied request is never recorded and the list is
\* never over-full, in every interleaving; the bound per window holds as
\* long as no call has taken the lock with a `now` older than a time
\* already recorded for its key
C36_BoundHoldsWhenNowIsFresh ==
    /\ SlotsBound
    /\ ~rl_stale => WindowBound

\* ------------------------------------------------------------------------
\* The result returned on exhaustion (Spec)
\* ------------------------------------------------------------------------

\* develop_with_retry has returned without a pass and with a critique
ExhaustedWithCritique == Returned /\ ~ret.passed /\ ret.critique # ""

\* The attempt the Reviewer was asked about last
IsLastReviewed(i) ==
    /\ i \in Attempts
    /\ hist[i].reviewed
    /\ \A j \in Attempts : j > i => ~hist[j].reviewed

\* C37: in a result returned on exhaustion the code, the qa_result and the
\* critique are those of one attempt: the critique returned is the review
\* of the code returned.
C37_ResultOfOneAttempt ==
    ExhaustedWithCritique =>
        \E i \in Attempts :
            /\ IsLastReviewed(i)
            /\ hist[i].critique = ret.critique
            /\ hist[i].code = ret.code
            /\ ret.qa_result = evaluate_code(hist[i].code)

\* What the code returns: the code and the qa_result of the first attempt,
\* with the critique of the last review, that of the attempt before the
\* last; they are one attempt only when max_retries is 2
C37_FirstCodeWithLastCritique ==
    ExhaustedWithCritique =>
        /\ max_retries >= 2
        /\ Len(hist) = max_retries
        /\ ret.code = hist[1].code
        /\ ret.qa_result = evaluate_code(hist[1].code)
        /\ IsLastReviewed(max_retries - 1)
        /\ ret.critique = hist[max_retries - 1].critique

\* ------------------------------------------------------------------------
\* Two pipelines at the same time (TwinSpec)
\* ------------------------------------------------------------------------

\* The summary a task has read holds the artifacts that passed earlier in
\* its own pipeline: all of them, and nothing else
ReadsItsOwn(j) == tw_read[j].summary = tw_read[j].own

\* C38: when two run_pipeline calls run at the same time, the summary a
\* task reads holds only artifacts that passed earlier in its own pipeline,
\* and all of them: no reset of the other pipeline has removed one.
C38_PipelinesStayPrivate ==
    \A j \in Jobs : tw_pc[j] = "running" => ReadsItsOwn(j)

\* What does hold: the same, as long as no two calls have been under way
\* at the same time
C38_PrivateWhenOneAfterAnother ==
    ~tw_overlap => \A j \in Jobs : tw_pc[j] = "running" => ReadsItsOwn(j)

====
